---- MODULE Spec2Model ----
(***************************************************************************)
(* Order lifecycle of the DePIN storage aggregator: checkout, the payment  *)
(* webhook handlers, cancelOrder, the allocation orchestrator              *)
(* (processOrder), retryTransaction, the confirmation poller and the       *)
(* periodic sweep (processPendingConfirmations), with the POST /webhook     *)
(* route, the provider sync of the plans and a restart of the process.     *)
(*                                                                         *)
(* Every store call and every adapter call of the source is an `await`,    *)
(* so each one is a separate atomic step and the steps of concurrently     *)
(* running handlers interleave freely.  A withTransaction block is one     *)
(* atomic step.  What a handler has read and not yet used is its local     *)
(* state; handlers that hold the same local state are counted, not named.  *)
(***************************************************************************)
EXTENDS Integers, Sequences, FiniteSets, Bags, TLC

\* ---------------------------------------------------------------- bounds
\* Orders created, BlockchainTransaction rows inserted, iterations a poller
\* makes (the source's maxAttempts, scaled down), and the operations the
\* environment starts: webhook deliveries, cancelOrder calls and sweep
\* passes together (MaxOps), retryTransaction calls (MaxRetryCalls).  The
\* webhook endpoint takes MaxHooks requests.
MaxOrders == 1
MaxTxs == 2
MaxPollAttempts == 2
MaxOps == 3
MaxRetryCalls == 4
MaxClock == 2
MaxCalls == 2
MaxVersion == 2
MaxHooks == 3

\* ------------------------------------------------------ program constants
DefaultMaxRetries == 3

OrderStatus ==
  {"PENDING_PAYMENT", "PAYMENT_PROCESSING", "PAYMENT_COMPLETED", "PAYMENT_FAILED",
   "BLOCKCHAIN_PENDING", "BLOCKCHAIN_PROCESSING", "BLOCKCHAIN_CONFIRMED",
   "BLOCKCHAIN_FAILED", "COMPLETED", "CANCELLED", "REFUNDED"}

PaymentStatus ==
  {"PENDING", "PROCESSING", "SUCCEEDED", "FAILED", "CANCELLED", "REFUNDED"}

TransactionStatus ==
  {"PENDING", "SUBMITTED", "CONFIRMING", "CONFIRMED", "FAILED", "RETRYING"}

VARIABLES
  orders,      \* store: Order rows, a sequence indexed by order id
  payments,    \* store: the Payment row of each order (same index)
  txs,         \* store: BlockchainTransaction rows, indexed by tx id
  checkout,    \* createCheckoutSession: position of each order's call
  stripe,      \* processor: orders for which a hosted session exists
  pend,        \* handlers that passed their read and have not written yet
  procSched,   \* processOrder calls made and not yet at their first read
  procRun,     \* processOrder runs between the guards and the row insert
  runs,        \* processOrder run that inserted tx t: its position
  pollers,     \* pollTransactionConfirmation(t): position, attempt, result
  sweep,       \* processPendingConfirmations: position, snapshot, result
  chain,       \* network: what the chain knows of the submission of tx t
  retryPend,   \* retryTransaction(t) calls past the guard, before the write
  adapterCalls,\* history: executeStorageTransaction calls per order
  wh,          \* history: webhook kinds handled for each order
  budget,      \* what the environment may still start; the pollers' limit
  last,        \* history: the call or return made by the latest step
  calls,       \* createCheckoutSession calls followed await by await
  plans,       \* store: StoragePlan rows, indexed by plan id
  customer,    \* store: whether the user has a stripeCustomerId
  orderKeys,   \* store: the idempotencyKey column of each order
  snapshots,   \* store: plan id and the terms copied onto each order
  payOrder,    \* store: the orderId column of each payment
  alloc,       \* store: allocatedAt / expiresAt of each order
  clock,       \* the time new Date() reads, in days
  hooks,       \* POST /webhook requests followed await by await
  txParams     \* the txParams held by the processOrder run that inserted tx t

vars == <<orders, payments, txs, checkout, stripe, pend, procSched, procRun,
          runs, pollers, sweep, chain, retryPend, adapterCalls, wh, budget, last,
          calls, plans, customer, orderKeys, snapshots, payOrder, alloc, clock,
          hooks, txParams>>

\* What the order lifecycle after checkout leaves alone.
aux == <<calls, plans, customer, orderKeys, snapshots, payOrder, clock, hooks, txParams>>

store == <<orders, payments, txs>>

OrderIds == 1..Len(orders)
TxIds == 1..Len(txs)

\* What the latest step was, when it was the first step of an operation or
\* its return; Quiet for a step in the middle of one.
Ret(op, id, out) == [op |-> op, id |-> id, out |-> out]

Quiet == Ret("step", 0, "none")

\* The environments explored: operations of every kind without retries, or
\* fewer of them with a run of retryTransaction calls; a poller gives up one
\* iteration earlier than where pollers are followed on their own.
Budgets ==
  {[ops |-> MaxOps, retry |-> 0, polls |-> MaxPollAttempts - 1, restarts |-> 0],
   [ops |-> MaxOps - 1, retry |-> MaxRetryCalls, polls |-> MaxPollAttempts - 1,
    restarts |-> 0]}

UseOp == budget.ops > 0 /\ budget' = [budget EXCEPT !.ops = @ - 1]

UseRetry == budget.retry > 0 /\ budget' = [budget EXCEPT !.retry = @ - 1]

SetOrderStatus(o, s) == [orders EXCEPT ![o].status = s]

SetPaymentStatus(o, s) == [payments EXCEPT ![o].status = s]

SetTxStatus(t, s) == [txs EXCEPT ![t].status = s]

\* A copy that takes the price from elsewhere.
Terms_NoPrice(plan) ==
  [storageSizeGb |-> plan.storageSizeGb, durationDays |-> plan.durationDays,
   priceUsdCents |-> 0]

\* The terms of a plan that an order copies.
Terms(plan) ==
  [storageSizeGb |-> plan.storageSizeGb, durationDays |-> plan.durationDays,
   priceUsdCents |-> plan.priceUsdCents]

\* gbToBytes(gb), for whole gb; sizes in bytes are counted in MiB.
GbToBytes(gb) == gb * 1024

\* The terms a provider may offer for its plan, now or at a later sync.
RemoteTerms ==
  {[storageSizeGb |-> 1, storageSizeBytes |-> GbToBytes(1), durationDays |-> 1,
    priceUsdCents |-> 1],
   [storageSizeGb |-> 2, storageSizeBytes |-> GbToBytes(2), durationDays |-> 2,
    priceUsdCents |-> 2]}

\* The plan the catalogue holds at the start: seeded, AVAILABLE
\* and active, version 1.
SeedPlan ==
  [status |-> "AVAILABLE", isActive |-> TRUE, version |-> 1,
   storageSizeGb |-> 1, storageSizeBytes |-> GbToBytes(1), durationDays |-> 1,
   priceUsdCents |-> 1]

PlanIds == 1..Len(plans)

\* A timestamp column that is null.
Null == -1

\* Empty tables apart from the seeded plan, nothing in flight.
Fresh ==
  /\ orders = <<>>
  /\ payments = <<>>
  /\ txs = <<>>
  /\ checkout = <<>>
  /\ stripe = {}
  /\ pend = [cc |-> <<>>, ps |-> <<>>, pf |-> <<>>, cancel |-> <<>>]
  /\ procSched = <<>>
  /\ procRun = [p2 |-> <<>>, p3 |-> <<>>, held |-> <<>>]
  /\ runs = <<>>
  /\ pollers = <<>>
  /\ sweep = [pc |-> "idle", todo |-> {}, cur |-> 0, res |-> "NONE"]
  /\ chain = <<>>
  /\ retryPend = <<>>
  /\ adapterCalls = <<>>
  /\ wh = <<>>
  /\ last = Quiet
  /\ calls = <<>>
  /\ plans = <<SeedPlan>>
  /\ customer = FALSE
  /\ orderKeys = <<>>
  /\ snapshots = <<>>
  /\ payOrder = <<>>
  /\ alloc = <<>>
  /\ clock = 0
  /\ hooks = <<>>
  /\ txParams = <<>>

Init == Fresh /\ budget \in Budgets

\* ------------------------------------------------------------- checkout
\* The order a payment created in the same store transaction points to.
PaymentOwner_First(o) == 1

\* payment.create { orderId: order.id }
PaymentOwner(o) == o

\* The store transaction of createCheckoutSession: order.create with the
\* key and the terms of the plan that the call read, and payment.create.
\* Everything that is kept per order starts here.
InsertOrder(key, planId, terms) ==
  /\ orders' = Append(orders, [status |-> "PENDING_PAYMENT"])
  /\ payments' = Append(payments, [status |-> "PENDING", intent |-> FALSE, session |-> FALSE])
  /\ payOrder' = Append(payOrder, PaymentOwner(Len(orders) + 1))
  /\ orderKeys' = Append(orderKeys, key)
  /\ snapshots' = Append(snapshots, [planId |-> planId] @@ terms)
  /\ alloc' = Append(alloc, [allocatedAt |-> Null, expiresAt |-> Null])
  /\ checkout' = Append(checkout, "created")
  /\ pend' = [cc |-> Append(pend.cc, 0), ps |-> Append(pend.ps, 0),
              pf |-> Append(pend.pf, 0), cancel |-> Append(pend.cancel, 0)]
  /\ procSched' = Append(procSched, 0)
  /\ procRun' = [p2 |-> Append(procRun.p2, 0), p3 |-> Append(procRun.p3, 0),
                 held |-> Append(procRun.held, EmptyBag)]
  /\ adapterCalls' = Append(adapterCalls, 0)
  /\ wh' = Append(wh, "none")

\* createCheckoutSession for the seeded plan, a known user and no key, up to
\* the commit of its store transaction.
CreateOrder ==
  /\ Len(orders) < MaxOrders
  /\ InsertOrder(0, 1, Terms(plans[1]))
  /\ last' = Ret("checkout", Len(orders) + 1, "created")
  /\ UNCHANGED <<txs, stripe, runs, pollers, sweep, chain, retryPend, budget,
                 calls, plans, customer, clock, hooks, txParams>>

\* A call whose failure takes the committed order back.
CreateSession_RollsBack(o) ==
  /\ checkout[o] = "created"
  /\ \/ /\ stripe' = stripe \cup {o}
        /\ checkout' = [checkout EXCEPT ![o] = "sessioned"]
        /\ last' = Quiet
        /\ orders' = orders
     \/ /\ stripe' = stripe
        /\ checkout' = [checkout EXCEPT ![o] = "failed"]
        /\ last' = Ret("checkout", o, "STRIPE_ERROR")
        /\ orders' = SetOrderStatus(o, "CANCELLED")
  /\ UNCHANGED <<aux, alloc, payments, txs, pend, procSched, procRun, runs, pollers, sweep,
                 chain, retryPend, adapterCalls, wh, budget>>

\* stripe.checkout.sessions.create: the session exists at the processor, or
\* the call throws and createCheckoutSession returns an error.
CreateSession(o) ==
  /\ checkout[o] = "created"
  /\ \/ /\ stripe' = stripe \cup {o}
        /\ checkout' = [checkout EXCEPT ![o] = "sessioned"]
        /\ last' = Quiet
     \/ /\ stripe' = stripe
        /\ checkout' = [checkout EXCEPT ![o] = "failed"]
        /\ last' = Ret("checkout", o, "STRIPE_ERROR")
  /\ UNCHANGED <<aux, alloc, store, pend, procSched, procRun, runs, pollers, sweep, chain,
                 retryPend, adapterCalls, wh, budget>>

\* payment.update { stripeSessionId }, then the success result.
StoreSession(o) ==
  /\ checkout[o] = "sessioned"
  /\ payments' = [payments EXCEPT ![o].session = TRUE]
  /\ checkout' = [checkout EXCEPT ![o] = "done"]
  /\ last' = Ret("checkout", o, "ok")
  /\ UNCHANGED <<aux, alloc, orders, txs, stripe, pend, procSched, procRun, runs, pollers,
                 sweep, chain, retryPend, adapterCalls, wh, budget>>

\* ------------------------------------------------------------- webhooks
Bump(f, o) == [f EXCEPT ![o] = @ + 1]

Drop(f, o) == [f EXCEPT ![o] = @ - 1]

\* The handler without its idempotency test.
AlreadyProcessed_Absent(o) == FALSE

\* handleCheckoutCompleted's idempotency test on the payment it has read.
AlreadyProcessed(o) == payments[o].status = "SUCCEEDED"

\* checkout.session.completed, first await: payment.findUnique and the test.
CompletedRead(o) ==
  /\ UseOp
  /\ o \in stripe
  /\ IF AlreadyProcessed(o)
       THEN /\ pend' = pend
            /\ last' = Ret("completed", o, "noop")
       ELSE /\ pend' = [pend EXCEPT !.cc = Bump(@, o)]
            /\ last' = Ret("completed", o, "read")
  /\ UNCHANGED <<aux, alloc, store, checkout, stripe, procSched, procRun, runs, pollers,
                 sweep, chain, retryPend, adapterCalls, wh>>

\* checkout.session.completed, the store transaction, then the detached
\* triggerBlockchainTransaction(orderId) started in the same turn.
CompletedWrite(o) ==
  /\ pend.cc[o] > 0
  /\ pend' = [pend EXCEPT !.cc = Drop(@, o)]
  /\ payments' = [payments EXCEPT ![o].status = "SUCCEEDED", ![o].intent = TRUE]
  /\ orders' = SetOrderStatus(o, "PAYMENT_COMPLETED")
  /\ procSched' = Bump(procSched, o)
  /\ wh' = [wh EXCEPT ![o] = IF @ = "none" THEN "completed" ELSE @]
  /\ last' = Ret("completed", o, "written")
  /\ UNCHANGED <<aux, alloc, txs, checkout, stripe, procRun, runs, pollers, sweep, chain,
                 retryPend, adapterCalls, budget>>

\* An expired session that is handled like a completed one.
CheckoutExpired_Dispatches(o) ==
  /\ UseOp
  /\ o \in stripe
  /\ payments' = SetPaymentStatus(o, "CANCELLED")
  /\ orders' = SetOrderStatus(o, "PAYMENT_COMPLETED")
  /\ procSched' = Bump(procSched, o)
  /\ wh' = [wh EXCEPT ![o] = "mixed"]
  /\ last' = Ret("expired", o, "written")
  /\ UNCHANGED <<aux, alloc, txs, checkout, stripe, pend, procRun, runs, pollers,
                 sweep, chain, retryPend, adapterCalls>>

\* checkout.session.expired: one store transaction, no read before it.
CheckoutExpired(o) ==
  /\ UseOp
  /\ o \in stripe
  /\ payments' = SetPaymentStatus(o, "CANCELLED")
  /\ orders' = SetOrderStatus(o, "CANCELLED")
  /\ wh' = [wh EXCEPT ![o] = "mixed"]
  /\ last' = Ret("expired", o, "written")
  /\ UNCHANGED <<aux, alloc, txs, checkout, stripe, pend, procSched, procRun, runs, pollers,
                 sweep, chain, retryPend, adapterCalls>>

\* payment.findUnique({ stripePaymentIntentId }): the row that bears the id,
\* which only handleCheckoutCompleted stores.
PaymentByIntent(o) == payments[o].intent

\* payment_intent.succeeded, the read and the test.
PaymentSucceededRead(o) ==
  /\ UseOp
  /\ o \in stripe
  /\ IF PaymentByIntent(o) /\ payments[o].status # "SUCCEEDED"
       THEN /\ pend' = [pend EXCEPT !.ps = Bump(@, o)]
            /\ last' = Ret("succeeded", o, "read")
       ELSE /\ pend' = pend
            /\ last' = Ret("succeeded", o, "noop")
  /\ UNCHANGED <<aux, alloc, store, checkout, stripe, procSched, procRun, runs, pollers,
                 sweep, chain, retryPend, adapterCalls, wh>>

\* payment_intent.succeeded, the update.
PaymentSucceededWrite(o) ==
  /\ pend.ps[o] > 0
  /\ pend' = [pend EXCEPT !.ps = Drop(@, o)]
  /\ payments' = SetPaymentStatus(o, "SUCCEEDED")
  /\ last' = Ret("succeeded", o, "written")
  /\ UNCHANGED <<aux, alloc, orders, txs, checkout, stripe, procSched, procRun, runs, pollers,
                 sweep, chain, retryPend, adapterCalls, wh, budget>>

\* payment_intent.payment_failed, the read and the test.
PaymentFailedRead(o) ==
  /\ UseOp
  /\ o \in stripe
  /\ IF PaymentByIntent(o)
       THEN /\ pend' = [pend EXCEPT !.pf = Bump(@, o)]
            /\ last' = Ret("failed", o, "read")
       ELSE /\ pend' = pend
            /\ last' = Ret("failed", o, "noop")
  /\ UNCHANGED <<aux, alloc, store, checkout, stripe, procSched, procRun, runs, pollers,
                 sweep, chain, retryPend, adapterCalls, wh>>

\* payment_intent.payment_failed, the store transaction.
PaymentFailedWrite(o) ==
  /\ pend.pf[o] > 0
  /\ pend' = [pend EXCEPT !.pf = Drop(@, o)]
  /\ payments' = SetPaymentStatus(o, "FAILED")
  /\ orders' = SetOrderStatus(o, "PAYMENT_FAILED")
  /\ wh' = [wh EXCEPT ![o] = "mixed"]
  /\ last' = Ret("failed", o, "written")
  /\ UNCHANGED <<aux, alloc, txs, checkout, stripe, procSched, procRun, runs, pollers, sweep,
                 chain, retryPend, adapterCalls, budget>>

\* ----------------------------------------------------------- cancelOrder
\* order.findUnique and the status test.
CancelRead(o) ==
  /\ UseOp
  /\ IF orders[o].status = "PENDING_PAYMENT"
       THEN /\ pend' = [pend EXCEPT !.cancel = Bump(@, o)]
            /\ last' = Ret("cancelOrder", o, "read")
       ELSE /\ pend' = pend
            /\ last' = Ret("cancelOrder", o, "error")
  /\ UNCHANGED <<aux, alloc, store, checkout, stripe, procSched, procRun, runs, pollers,
                 sweep, chain, retryPend, adapterCalls, wh>>

\* order.update { status: CANCELLED }
CancelWrite(o) ==
  /\ pend.cancel[o] > 0
  /\ pend' = [pend EXCEPT !.cancel = Drop(@, o)]
  /\ orders' = SetOrderStatus(o, "CANCELLED")
  /\ last' = Ret("cancelOrder", o, "ok")
  /\ UNCHANGED <<aux, alloc, payments, txs, checkout, stripe, procSched, procRun, runs,
                 pollers, sweep, chain, retryPend, adapterCalls, wh, budget>>

\* ---------------------------------------------------------- processOrder
\* A guard that also lets a BLOCKCHAIN_FAILED order through.
Dispatchable_Loose(o) == orders[o].status \in {"PAYMENT_COMPLETED", "BLOCKCHAIN_FAILED"}

\* The guard on the order that processOrder has read.
Dispatchable(o) == orders[o].status = "PAYMENT_COMPLETED"

\* The txId a success result carries, as text.
TxId(t) == ToString(t)

\* A test that overlooks rows not yet submitted.
ExistingTx_Submitted(o) ==
  {t \in TxIds : txs[t].orderId = o /\ txs[t].status \in {"SUBMITTED", "CONFIRMING", "CONFIRMED"}}

\* order.transactions.find(tx => tx.status !== FAILED): the rows it may
\* return (the relation is loaded without an ordering).
ExistingTx(o) == {t \in TxIds : txs[t].orderId = o /\ txs[t].status # "FAILED"}

\* The txParams built from the order that processOrder has read with its
\* plan: order.plan.storageSizeBytes and order.durationDays.
TxParams(o) ==
  [storageSizeBytes |-> plans[snapshots[o].planId].storageSizeBytes,
   durationDays |-> snapshots[o].durationDays]

\* order.findUnique (with its plan and transactions) and the two early
\* returns.
ProcessOrderRead(o) ==
  /\ procSched[o] > 0
  /\ procSched' = Drop(procSched, o)
  /\ IF ~Dispatchable(o)
       THEN /\ procRun' = procRun
            /\ last' = Ret("processOrder", o, "INVALID_ORDER_STATUS")
       ELSE IF ExistingTx(o) # {}
         THEN /\ procRun' = procRun
              /\ \E t \in ExistingTx(o) : last' = Ret("processOrder", o, TxId(t))
         ELSE /\ procRun' = [procRun EXCEPT !.p2 = Bump(@, o),
                                            !.held[o] = @ (+) SetToBag({TxParams(o)})]
              /\ last' = Ret("processOrder", o, "read")
  /\ UNCHANGED <<aux, alloc, store, checkout, stripe, pend, runs, pollers, sweep, chain,
                 retryPend, adapterCalls, wh, budget>>

\* order.update { status: BLOCKCHAIN_PENDING }
ProcessOrderPending(o) ==
  /\ procRun.p2[o] > 0
  /\ procRun' = [procRun EXCEPT !.p2 = Drop(@, o), !.p3 = Bump(@, o)]
  /\ orders' = SetOrderStatus(o, "BLOCKCHAIN_PENDING")
  /\ last' = Quiet
  /\ UNCHANGED <<aux, alloc, payments, txs, checkout, stripe, pend, procSched, runs, pollers,
                 sweep, chain, retryPend, adapterCalls, wh, budget>>

\* A message that is null or undefined.
NoMessage == ""

\* A row that is inserted as already submitted.
NewTx_Submitted(o) ==
  [orderId |-> o, status |-> "SUBMITTED", txHash |-> 0, retryCount |-> 0,
   maxRetries |-> DefaultMaxRetries, statusMessage |-> NoMessage]

\* The row blockchainTransaction.create inserts, with the schema's defaults.
NewTx(o) ==
  [orderId |-> o, status |-> "PENDING", txHash |-> 0, retryCount |-> 0,
   maxRetries |-> DefaultMaxRetries, statusMessage |-> NoMessage]

\* blockchainTransaction.create { status: PENDING }, by a run that holds
\* the txParams it built from what it read.
ProcessOrderCreateTx(o) ==
  /\ procRun.p3[o] > 0
  /\ Len(txs) < MaxTxs
  /\ \E p \in BagToSet(procRun.held[o]) :
       /\ procRun' = [procRun EXCEPT !.p3 = Drop(@, o),
                                     !.held[o] = @ (-) SetToBag({p})]
       /\ txParams' = Append(txParams, p)
  /\ txs' = Append(txs, NewTx(o))
  /\ runs' = Append(runs, "setProcessing")
  /\ pollers' = Append(pollers, [pc |-> "none", attempt |-> 0, res |-> "NONE",
                                 err |-> NoMessage])
  /\ chain' = Append(chain, "NONE")
  /\ retryPend' = Append(retryPend, 0)
  /\ last' = Quiet
  /\ UNCHANGED <<calls, plans, customer, orderKeys, snapshots, payOrder, clock, hooks>>
  /\ UNCHANGED <<alloc, orders, payments, checkout, stripe, pend, procSched, sweep,
                 adapterCalls, wh, budget>>

\* order.update { status: BLOCKCHAIN_PROCESSING }
ProcessOrderProcessing(t) ==
  /\ runs[t] = "setProcessing"
  /\ runs' = [runs EXCEPT ![t] = "callAdapter"]
  /\ orders' = SetOrderStatus(txs[t].orderId, "BLOCKCHAIN_PROCESSING")
  /\ last' = Quiet
  /\ UNCHANGED <<aux, alloc, payments, txs, checkout, stripe, pend, procSched, procRun,
                 pollers, sweep, chain, retryPend, adapterCalls, wh, budget>>

\* The status a successful executeStorageTransaction reports: SUBMITTED from
\* createPendingTransaction (EVM style), CONFIRMED from the upload adapters.
SubmitStatus == {"SUBMITTED", "CONFIRMED"}

\* adapter.executeStorageTransaction(txParams): success with a txHash, a
\* failure result, or a throw (ensureInitialized).
ProcessOrderCallAdapter(t) ==
  /\ runs[t] = "callAdapter"
  /\ adapterCalls' = Bump(adapterCalls, txs[t].orderId)
  /\ \/ \E s \in SubmitStatus :
          /\ runs' = [runs EXCEPT ![t] = s]
          /\ chain' = [chain EXCEPT ![t] = IF s = "CONFIRMED" THEN "CONFIRMED" ELSE "OPEN"]
     \/ /\ runs' = [runs EXCEPT ![t] = "failed"]
        /\ chain' = chain
     \/ /\ runs' = [runs EXCEPT ![t] = "thrown"]
        /\ chain' = chain
  /\ last' = Ret("executeStorageTransaction", txs[t].orderId, "called")
  /\ UNCHANGED <<aux, alloc, store, checkout, stripe, pend, procSched, procRun, pollers,
                 sweep, retryPend, wh, budget>>

\* An update that stores the status and leaves the txHash column alone.
ProcessOrderSubmitted_NoHash(t) ==
  /\ runs[t] \in SubmitStatus
  /\ txs' = [txs EXCEPT ![t].status = runs[t]]
  /\ runs' = [runs EXCEPT ![t] = "updateOrder"]
  /\ last' = Quiet
  /\ UNCHANGED <<aux, alloc, orders, payments, checkout, stripe, pend, procSched, procRun,
                 pollers, sweep, chain, retryPend, adapterCalls, wh, budget>>

\* blockchainTransaction.update { txHash, status: result.status, ... }
ProcessOrderSubmitted(t) ==
  /\ runs[t] \in SubmitStatus
  /\ txs' = [txs EXCEPT ![t].status = runs[t], ![t].txHash = t]
  /\ runs' = [runs EXCEPT ![t] = "updateOrder"]
  /\ last' = Quiet
  /\ UNCHANGED <<aux, alloc, orders, payments, checkout, stripe, pend, procSched, procRun,
                 pollers, sweep, chain, retryPend, adapterCalls, wh, budget>>

\* order.update { status: BLOCKCHAIN_PROCESSING, storageId, ... }, then the
\* detached pollTransactionConfirmation and the success result.
ProcessOrderStamp(t) ==
  /\ runs[t] = "updateOrder"
  /\ orders' = SetOrderStatus(txs[t].orderId, "BLOCKCHAIN_PROCESSING")
  /\ runs' = [runs EXCEPT ![t] = "returnedOk"]
  /\ pollers' = [pollers EXCEPT ![t].pc = "wait"]
  /\ last' = Ret("processOrder", txs[t].orderId, "ok")
  /\ UNCHANGED <<aux, alloc, payments, txs, checkout, stripe, pend, procSched, procRun,
                 sweep, chain, retryPend, adapterCalls, wh, budget>>

\* The error of a failure result: createFailedTransaction(error.message).
ExecError == "out of funds"

\* A default that replaces the message it is given.
MessageOr_Default(e, d) == d

\* e || d
MessageOr(e, d) == IF e = NoMessage THEN d ELSE e

\* The store transaction of the failure branch, then TRANSACTION_FAILED.
ProcessOrderFailed(t) ==
  /\ runs[t] = "failed"
  /\ txs' = [txs EXCEPT ![t].status = "FAILED",
                        ![t].statusMessage = MessageOr(ExecError, "Transaction failed")]
  /\ orders' = SetOrderStatus(txs[t].orderId, "BLOCKCHAIN_FAILED")
  /\ runs' = [runs EXCEPT ![t] = "returnedFailed"]
  /\ last' = Ret("processOrder", txs[t].orderId, "TRANSACTION_FAILED")
  /\ UNCHANGED <<aux, alloc, payments, checkout, stripe, pend, procSched, procRun, pollers,
                 sweep, chain, retryPend, adapterCalls, wh, budget>>

\* The catch block: order.update { status: BLOCKCHAIN_FAILED }.
ProcessOrderCatch(t) ==
  /\ runs[t] = "thrown"
  /\ orders' = SetOrderStatus(txs[t].orderId, "BLOCKCHAIN_FAILED")
  /\ runs' = [runs EXCEPT ![t] = "returnedThrown"]
  /\ last' = Ret("processOrder", txs[t].orderId, "PROCESSING_FAILED")
  /\ UNCHANGED <<aux, alloc, payments, txs, checkout, stripe, pend, procSched, procRun,
                 pollers, sweep, chain, retryPend, adapterCalls, wh, budget>>

\* ------------------------------------------------------ retryTransaction
\* The guards of retryTransaction on the row it has read, if there is one.
RetryGuard(t) ==
  IF t \notin TxIds THEN "TX_NOT_FOUND"
  ELSE IF txs[t].status # "FAILED" THEN "INVALID_STATUS"
  ELSE IF txs[t].retryCount >= txs[t].maxRetries THEN "MAX_RETRIES"
  ELSE "pass"

\* A call that goes on to its update whatever the guards said.
RetryRead_Unguarded(t) ==
  /\ UseRetry
  /\ retryPend' = IF t \in TxIds THEN Bump(retryPend, t) ELSE retryPend
  /\ last' = Ret("retryTransaction", t, RetryGuard(t))
  /\ UNCHANGED <<aux, alloc, store, checkout, stripe, pend, procSched, procRun, runs,
                 pollers, sweep, chain, adapterCalls, wh>>

\* blockchainTransaction.findUnique and the guards.
RetryRead(t) ==
  /\ UseRetry
  /\ retryPend' = IF RetryGuard(t) = "pass" THEN Bump(retryPend, t) ELSE retryPend
  /\ last' = Ret("retryTransaction", t, RetryGuard(t))
  /\ UNCHANGED <<aux, alloc, store, checkout, stripe, pend, procSched, procRun, runs,
                 pollers, sweep, chain, adapterCalls, wh>>

\* blockchainTransaction.update { retryCount: increment 1, status: RETRYING },
\* then the call of processOrder(tx.orderId).
RetryWrite(t) ==
  /\ retryPend[t] > 0
  /\ retryPend' = Drop(retryPend, t)
  /\ txs' = [txs EXCEPT ![t].retryCount = @ + 1, ![t].status = "RETRYING"]
  /\ procSched' = Bump(procSched, txs[t].orderId)
  /\ last' = Ret("retryTransaction", t, "written")
  /\ UNCHANGED <<aux, alloc, orders, payments, checkout, stripe, pend, procRun, runs,
                 pollers, sweep, chain, adapterCalls, wh, budget>>

\* ------------------------------------------------- network and the adapter
\* The network's verdict on a submitted transaction: OPEN until it settles
\* as CONFIRMED (mined and five blocks deep) or FAILED (receipt status 0).
ChainAdvance(t) ==
  /\ chain[t] = "OPEN"
  /\ \E r \in {"CONFIRMED", "FAILED"} : chain' = [chain EXCEPT ![t] = r]
  /\ last' = Quiet
  /\ UNCHANGED <<aux, alloc, store, checkout, stripe, pend, procSched, procRun, runs,
                 pollers, sweep, retryPend, adapterCalls, wh, budget>>

\* adapter.checkTransactionStatus(txHash): no receipt yet (PENDING) or too few
\* confirmations (CONFIRMING) while the verdict is open, the verdict once it
\* is in, and PENDING whenever the RPC call fails inside the adapter.
StatusResults(t) ==
  IF chain[t] = "OPEN" THEN {"PENDING", "CONFIRMING"} ELSE {chain[t], "PENDING"}

\* The error a status result carries: 'Transaction reverted' with FAILED,
\* the message of the failed RPC call or none with PENDING, none otherwise.
StatusErrors(r) ==
  IF r = "FAILED" THEN {"Transaction reverted"}
  ELSE IF r = "PENDING" THEN {NoMessage, "Failed to check status"}
  ELSE {NoMessage}

\* -------------------------------------------- pollTransactionConfirmation
\* An iteration that skips nothing.
PollSkips_Never(t) == FALSE

\* The rows an iteration skips: no txHash, or already CONFIRMED / FAILED.
PollSkips(t) == txs[t].txHash = 0 \/ txs[t].status \in {"CONFIRMED", "FAILED"}

\* Start of an iteration: blockchainTransaction.findUnique and the returns.
PollRead(t) ==
  /\ pollers[t].pc = "wait"
  /\ pollers[t].attempt < budget.polls
  /\ IF PollSkips(t)
       THEN /\ pollers' = [pollers EXCEPT ![t].pc = "done"]
            /\ last' = Ret("poll", t, "return")
       ELSE /\ pollers' = [pollers EXCEPT ![t].pc = "check", ![t].attempt = @ + 1]
            /\ last' = Quiet
  /\ UNCHANGED <<aux, alloc, store, checkout, stripe, pend, procSched, procRun, runs, sweep,
                 chain, retryPend, adapterCalls, wh, budget>>

\* The loop ends after maxAttempts iterations.
PollExhausted(t) ==
  /\ pollers[t].pc = "wait"
  /\ pollers[t].attempt >= budget.polls
  /\ pollers' = [pollers EXCEPT ![t].pc = "done"]
  /\ last' = Ret("poll", t, "exhausted")
  /\ UNCHANGED <<aux, alloc, store, checkout, stripe, pend, procSched, procRun, runs, sweep,
                 chain, retryPend, adapterCalls, wh, budget>>

\* adapter.checkTransactionStatus, or a throw caught by the iteration.
PollCheck(t) ==
  /\ pollers[t].pc = "check"
  /\ \/ /\ \E r \in StatusResults(t) : \E e \in StatusErrors(r) :
             pollers' = [pollers EXCEPT ![t].pc = "got", ![t].res = r, ![t].err = e]
        /\ last' = Quiet
     \/ /\ pollers' = [pollers EXCEPT ![t].pc = "wait"]
        /\ last' = Ret("poll", t, "caught")
  /\ UNCHANGED <<aux, alloc, store, checkout, stripe, pend, procSched, procRun, runs, sweep,
                 chain, retryPend, adapterCalls, wh, budget>>

\* A status after which the poller and the sweep update the order.
Terminal(r) == r \in {"CONFIRMED", "FAILED"}

\* blockchainTransaction.update { status: status.status, ...,
\* statusMessage: status.error }; an undefined error leaves the column.
PollWriteTx(t) ==
  /\ pollers[t].pc = "got"
  /\ txs' = [txs EXCEPT ![t].status = pollers[t].res,
                        ![t].statusMessage = IF pollers[t].err = NoMessage
                                               THEN @ ELSE pollers[t].err]
  /\ pollers' = IF Terminal(pollers[t].res)
                  THEN [pollers EXCEPT ![t].pc = "order", ![t].err = NoMessage]
                  ELSE [pollers EXCEPT ![t].pc = "wait", ![t].res = "NONE",
                                       ![t].err = NoMessage]
  /\ last' = Quiet
  /\ UNCHANGED <<aux, alloc, orders, payments, checkout, stripe, pend, procSched, procRun,
                 runs, sweep, chain, retryPend, adapterCalls, wh, budget>>

\* addDays(date, days), in days.
AddDays_Same(date, days) == date

AddDays(date, days) == date + days

\* The timestamps written with COMPLETED: allocatedAt = new Date() and
\* expiresAt = addDays(new Date(), order.durationDays), both read in the
\* same turn.  A FAILED verdict writes neither.
Stamp(o, r) ==
  IF r = "CONFIRMED"
    THEN [alloc EXCEPT ![o] = [allocatedAt |-> clock,
                               expiresAt |-> AddDays(clock, snapshots[o].durationDays)]]
    ELSE alloc

\* The order status that follows a terminal adapter status.
OrderStatusFor(r) == IF r = "CONFIRMED" THEN "COMPLETED" ELSE "BLOCKCHAIN_FAILED"

\* order.update after CONFIRMED / FAILED, then return.
PollWriteOrder(t) ==
  /\ pollers[t].pc = "order"
  /\ orders' = SetOrderStatus(txs[t].orderId, OrderStatusFor(pollers[t].res))
  /\ alloc' = Stamp(txs[t].orderId, pollers[t].res)
  /\ pollers' = [pollers EXCEPT ![t].pc = "done", ![t].res = "NONE"]
  /\ last' = Ret("poll", t, "return")
  /\ UNCHANGED <<aux, payments, txs, checkout, stripe, pend, procSched, procRun, runs,
                 sweep, chain, retryPend, adapterCalls, wh, budget>>

\* -------------------------------------------- processPendingConfirmations
\* getPendingTransactions(): rows whose status is SUBMITTED or CONFIRMING.
PendingTransactions == {t \in TxIds : txs[t].status \in {"SUBMITTED", "CONFIRMING"}}

SweepIdle == [pc |-> "idle", todo |-> {}, cur |-> 0, res |-> "NONE"]

\* A pass starts: the findMany snapshot.  Rows without a txHash are skipped
\* by the loop.
SweepBegin ==
  /\ sweep.pc = "idle"
  /\ sweep' = [SweepIdle EXCEPT !.pc = "loop",
                                !.todo = {t \in PendingTransactions : txs[t].txHash # 0}]
  /\ last' = Ret("sweep", 0, "start")
  /\ UNCHANGED <<aux, alloc, store, checkout, stripe, pend, procSched, procRun, runs,
                 pollers, chain, retryPend, adapterCalls, wh>>

\* One of the passes the environment is allowed.
SweepStart == UseOp /\ SweepBegin

\* The cron job fires, as often as it likes.
CronSweep == SweepBegin /\ UNCHANGED budget

\* The pass is over when the snapshot is used up.
SweepEnd ==
  /\ sweep.pc = "loop"
  /\ sweep.todo = {}
  /\ sweep' = SweepIdle
  /\ last' = Ret("sweep", 0, "end")
  /\ UNCHANGED <<aux, alloc, store, checkout, stripe, pend, procSched, procRun, runs,
                 pollers, chain, retryPend, adapterCalls, wh, budget>>

\* Next row of the snapshot: adapter.checkTransactionStatus, or a throw
\* caught by the loop body.
SweepCheck(t) ==
  /\ sweep.pc = "loop"
  /\ t \in sweep.todo
  /\ \/ \E r \in StatusResults(t) :
          sweep' = [pc |-> "got", todo |-> sweep.todo \ {t}, cur |-> t, res |-> r]
     \/ sweep' = [sweep EXCEPT !.todo = @ \ {t}]
  /\ last' = Quiet
  /\ UNCHANGED <<aux, alloc, store, checkout, stripe, pend, procSched, procRun, runs,
                 pollers, chain, retryPend, adapterCalls, wh, budget>>

\* blockchainTransaction.update { status: status.status, ... }
SweepWriteTx ==
  /\ sweep.pc = "got"
  /\ txs' = SetTxStatus(sweep.cur, sweep.res)
  /\ sweep' = IF Terminal(sweep.res)
                THEN [sweep EXCEPT !.pc = "order"]
                ELSE [sweep EXCEPT !.pc = "loop", !.cur = 0, !.res = "NONE"]
  /\ last' = Quiet
  /\ UNCHANGED <<aux, alloc, orders, payments, checkout, stripe, pend, procSched, procRun,
                 runs, pollers, chain, retryPend, adapterCalls, wh, budget>>

\* order.update after CONFIRMED / FAILED, then the next row.
SweepWriteOrder ==
  /\ sweep.pc = "order"
  /\ orders' = SetOrderStatus(txs[sweep.cur].orderId, OrderStatusFor(sweep.res))
  /\ alloc' = Stamp(txs[sweep.cur].orderId, sweep.res)
  /\ sweep' = [sweep EXCEPT !.pc = "loop", !.cur = 0, !.res = "NONE"]
  /\ last' = Quiet
  /\ UNCHANGED <<aux, payments, txs, checkout, stripe, pend, procSched, procRun, runs,
                 pollers, chain, retryPend, adapterCalls, wh, budget>>

\* ------------------------------------------------------------ the system
Next ==
  \/ CreateOrder
  \/ \E o \in OrderIds : CreateSession(o)
  \/ \E o \in OrderIds : StoreSession(o)
  \/ \E o \in OrderIds : CompletedRead(o)
  \/ \E o \in OrderIds : CompletedWrite(o)
  \/ \E o \in OrderIds : CheckoutExpired(o)
  \/ \E o \in OrderIds : PaymentSucceededRead(o)
  \/ \E o \in OrderIds : PaymentSucceededWrite(o)
  \/ \E o \in OrderIds : PaymentFailedRead(o)
  \/ \E o \in OrderIds : PaymentFailedWrite(o)
  \/ \E o \in OrderIds : CancelRead(o)
  \/ \E o \in OrderIds : CancelWrite(o)
  \/ \E o \in OrderIds : ProcessOrderRead(o)
  \/ \E o \in OrderIds : ProcessOrderPending(o)
  \/ \E o \in OrderIds : ProcessOrderCreateTx(o)
  \/ \E t \in TxIds : ProcessOrderProcessing(t)
  \/ \E t \in TxIds : ProcessOrderCallAdapter(t)
  \/ \E t \in TxIds : ProcessOrderSubmitted(t)
  \/ \E t \in TxIds : ProcessOrderStamp(t)
  \/ \E t \in TxIds : ProcessOrderFailed(t)
  \/ \E t \in TxIds : ProcessOrderCatch(t)
  \/ \E t \in 1..MaxTxs : RetryRead(t)
  \/ \E t \in TxIds : RetryWrite(t)
  \/ \E t \in TxIds : ChainAdvance(t)
  \/ \E t \in TxIds : PollRead(t)
  \/ \E t \in TxIds : PollExhausted(t)
  \/ \E t \in TxIds : PollCheck(t)
  \/ \E t \in TxIds : PollWriteTx(t)
  \/ \E t \in TxIds : PollWriteOrder(t)
  \/ SweepStart
  \/ SweepEnd
  \/ \E t \in TxIds : SweepCheck(t)
  \/ SweepWriteTx
  \/ SweepWriteOrder

Spec == Init /\ [][Next]_vars

\* ------------------------------------------- createCheckoutSession, in full
\* What a request may carry: an idempotencyKey (0 for none), a planId and a
\* userId (0 for one that no row has).
KeyInputs == {0, 1}

PlanInputs == {0, 1}

UserInputs == {0, 1}

\* The users table.
Users == {1}

CallIds == 1..Len(calls)

NoTerms == [storageSizeGb |-> 0, durationDays |-> 0, priceUsdCents |-> 0]

\* A call that has returned.
Returned ==
  [pc |-> "done", key |-> 0, planId |-> 0, userId |-> 0, terms |-> NoTerms,
   found |-> 0, made |-> 0]

\* A lookup that takes the first order there is.
OrderByKey_First(k) == IF OrderIds = {} THEN 0 ELSE 1

\* order.findUnique({ where: { idempotencyKey } }): the order, or 0.
OrderByKey(k) ==
  IF \E o \in OrderIds : orderKeys[o] = k
    THEN CHOOSE o \in OrderIds : orderKeys[o] = k
    ELSE 0

\* existingOrder.payments[0]: the first payment of the order, or 0.
FirstPayment(o) ==
  IF \E q \in 1..Len(payments) : payOrder[q] = o
    THEN CHOOSE q \in 1..Len(payments) :
           payOrder[q] = o /\ \A r \in 1..Len(payments) : payOrder[r] = o => q <= r
    ELSE 0

\* A test that never sees a stored session.
HasSession_Never(o) == FALSE

\* payment?.stripeSessionId is set.
HasSession(o) == FirstPayment(o) # 0 /\ payments[FirstPayment(o)].session

\* A plan test that lets every plan through.
PlanUsable_Any(p) == TRUE

\* plan.status === 'AVAILABLE' && plan.isActive
PlanUsable(p) == plans[p].status = "AVAILABLE" /\ plans[p].isActive

\* Call c moves on, or returns with last as its result.
CallTo(c, pc) == calls' = [calls EXCEPT ![c].pc = pc]

CallReturns(c, id, out) ==
  /\ calls' = [calls EXCEPT ![c] = Returned]
  /\ last' = Ret("checkout", id, out)

\* A request arrives.
CheckoutBegin ==
  /\ Len(calls) < MaxCalls
  /\ \E k \in KeyInputs, p \in PlanInputs, u \in UserInputs :
       calls' = Append(calls, [pc |-> IF k # 0 THEN "lookup" ELSE "plan", key |-> k,
                               planId |-> p, userId |-> u, terms |-> NoTerms,
                               found |-> 0, made |-> 0])
  /\ last' = Ret("checkout", 0, "begin")
  /\ UNCHANGED <<store, checkout, stripe, pend, procSched, procRun, runs, pollers,
                 sweep, chain, retryPend, adapterCalls, wh, budget, plans,
                 customer, orderKeys, snapshots, payOrder, alloc, clock, hooks, txParams>>

\* The idempotency lookup: order.findUnique by key with its payments.
CheckoutLookup(c) ==
  /\ calls[c].pc = "lookup"
  /\ LET o == OrderByKey(calls[c].key)
     IN calls' = [calls EXCEPT ![c].found = o,
                               ![c].pc = IF o # 0 /\ HasSession(o) THEN "retrieve" ELSE "plan"]
  /\ last' = Quiet
  /\ UNCHANGED <<store, checkout, stripe, pend, procSched, procRun, runs, pollers,
                 sweep, chain, retryPend, adapterCalls, wh, budget, plans,
                 customer, orderKeys, snapshots, payOrder, alloc, clock, hooks, txParams>>

\* stripe.checkout.sessions.retrieve: the stored session comes back and is
\* returned with the ids of the existing order, or the processor call throws.
CheckoutRetrieve(c) ==
  /\ calls[c].pc = "retrieve"
  /\ \/ /\ calls' = [calls EXCEPT ![c] = [Returned EXCEPT !.found = calls[c].found]]
        /\ last' = Ret("checkout", calls[c].found, "ok")
     \/ CallReturns(c, 0, "STRIPE_ERROR")
  /\ UNCHANGED <<store, checkout, stripe, pend, procSched, procRun, runs, pollers,
                 sweep, chain, retryPend, adapterCalls, wh, budget, plans,
                 customer, orderKeys, snapshots, payOrder, alloc, clock, hooks, txParams>>

\* storagePlan.findUnique and the two plan tests.
CheckoutPlan(c) ==
  /\ calls[c].pc = "plan"
  /\ IF calls[c].planId \notin PlanIds
       THEN CallReturns(c, 0, "PLAN_NOT_FOUND")
       ELSE IF ~PlanUsable(calls[c].planId)
         THEN CallReturns(c, 0, "PLAN_UNAVAILABLE")
         ELSE /\ calls' = [calls EXCEPT ![c].pc = "user",
                                        ![c].terms = Terms(plans[calls[c].planId])]
              /\ last' = Quiet
  /\ UNCHANGED <<store, checkout, stripe, pend, procSched, procRun, runs, pollers,
                 sweep, chain, retryPend, adapterCalls, wh, budget, plans,
                 customer, orderKeys, snapshots, payOrder, alloc, clock, hooks, txParams>>

\* user.findUnique and the test; a user with a stripeCustomerId goes
\* straight to the store transaction.
CheckoutUser(c) ==
  /\ calls[c].pc = "user"
  /\ IF calls[c].userId \notin Users
       THEN CallReturns(c, 0, "USER_NOT_FOUND")
       ELSE /\ CallTo(c, IF customer THEN "create" ELSE "customer")
            /\ last' = Quiet
  /\ UNCHANGED <<store, checkout, stripe, pend, procSched, procRun, runs, pollers,
                 sweep, chain, retryPend, adapterCalls, wh, budget, plans,
                 customer, orderKeys, snapshots, payOrder, alloc, clock, hooks, txParams>>

\* stripe.customers.create and user.update { stripeCustomerId }, or a throw
\* of the processor call.
CheckoutCustomer(c) ==
  /\ calls[c].pc = "customer"
  /\ \/ /\ CallTo(c, "create")
        /\ customer' = TRUE
        /\ last' = Quiet
     \/ /\ CallReturns(c, 0, "STRIPE_ERROR")
        /\ customer' = customer
  /\ UNCHANGED <<store, checkout, stripe, pend, procSched, procRun, runs, pollers,
                 sweep, chain, retryPend, adapterCalls, wh, budget, plans,
                 orderKeys, snapshots, payOrder, alloc, clock, hooks, txParams>>

\* The store transaction.  order.create with a key that an order already
\* bears violates orders_idempotency_key_key: the transaction rolls back and
\* the catch block returns CHECKOUT_FAILED.  Otherwise both rows are in, and
\* the call goes on as checkout[o] tells.
CheckoutCreate(c) ==
  /\ calls[c].pc = "create"
  /\ IF calls[c].key # 0 /\ OrderByKey(calls[c].key) # 0
       THEN /\ CallReturns(c, 0, "CHECKOUT_FAILED")
            /\ UNCHANGED <<store, checkout, pend, procSched, procRun, adapterCalls,
                           wh, orderKeys, snapshots, payOrder, alloc>>
       ELSE /\ InsertOrder(calls[c].key, calls[c].planId, calls[c].terms)
            /\ calls' = [calls EXCEPT ![c].pc = "session", ![c].made = Len(orders) + 1]
            /\ last' = Ret("checkout", Len(orders) + 1, "created")
            /\ txs' = txs
  /\ UNCHANGED <<stripe, runs, pollers, sweep, chain, retryPend, budget, plans,
                 customer, clock, hooks, txParams>>

\* ---------------------------------------------------------------- syncPlans
\* storagePlan.update for a plan the provider still offers: the remote
\* terms, AVAILABLE and active, version + 1.
SyncPlanUpdate(p) ==
  /\ plans[p].version < MaxVersion
  /\ \E r \in RemoteTerms :
       plans' = [plans EXCEPT ![p] = [status |-> "AVAILABLE", isActive |-> TRUE,
                                      version |-> plans[p].version + 1] @@ r]
  /\ last' = Quiet
  /\ UNCHANGED <<store, checkout, stripe, pend, procSched, procRun, runs, pollers,
                 sweep, chain, retryPend, adapterCalls, wh, budget, calls,
                 customer, orderKeys, snapshots, payOrder, alloc, clock, hooks, txParams>>

\* storagePlan.update for a plan the provider no longer offers.
SyncPlanRemove(p) ==
  /\ plans[p].status # "UNAVAILABLE" \/ plans[p].isActive
  /\ plans' = [plans EXCEPT ![p].status = "UNAVAILABLE", ![p].isActive = FALSE]
  /\ last' = Quiet
  /\ UNCHANGED <<store, checkout, stripe, pend, procSched, procRun, runs, pollers,
                 sweep, chain, retryPend, adapterCalls, wh, budget, calls,
                 customer, orderKeys, snapshots, payOrder, alloc, clock, hooks, txParams>>

\* Checkout calls, plan syncs and the payment webhooks; the allocation that
\* a paid order goes on to is followed in Spec.
CheckoutInit ==
  Fresh /\ budget = [ops |-> MaxOps, retry |-> 0, polls |-> MaxPollAttempts - 1, restarts |-> 0]

CheckoutNext ==
  \/ CheckoutBegin
  \/ \E c \in CallIds : CheckoutLookup(c)
  \/ \E c \in CallIds : CheckoutRetrieve(c)
  \/ \E c \in CallIds : CheckoutPlan(c)
  \/ \E c \in CallIds : CheckoutUser(c)
  \/ \E c \in CallIds : CheckoutCustomer(c)
  \/ \E c \in CallIds : CheckoutCreate(c)
  \/ \E o \in OrderIds : CreateSession(o)
  \/ \E o \in OrderIds : StoreSession(o)
  \/ \E p \in PlanIds : SyncPlanUpdate(p)
  \/ \E p \in PlanIds : SyncPlanRemove(p)
  \/ \E o \in OrderIds : CompletedRead(o)
  \/ \E o \in OrderIds : CompletedWrite(o)
  \/ \E o \in OrderIds : CheckoutExpired(o)
  \/ \E o \in OrderIds : PaymentSucceededRead(o)
  \/ \E o \in OrderIds : PaymentSucceededWrite(o)
  \/ \E o \in OrderIds : PaymentFailedRead(o)
  \/ \E o \in OrderIds : PaymentFailedWrite(o)

CheckoutSpec == CheckoutInit /\ [][CheckoutNext]_vars

\* ------------------------------------------------- the paid path, timed
\* A day passes.
Tick ==
  /\ clock < MaxClock
  /\ clock' = clock + 1
  /\ last' = Quiet
  /\ UNCHANGED <<store, checkout, stripe, pend, procSched, procRun, runs,
                 pollers, sweep, chain, retryPend, adapterCalls, wh, budget,
                 calls, plans, customer, orderKeys, snapshots, payOrder, alloc,
                 hooks, txParams>>

\* Deliveries of checkout.session.completed and sweep passes only, one
\* fewer than in Spec.
TimedInit ==
  Fresh /\ budget = [ops |-> MaxOps - 1, retry |-> 0, polls |-> MaxPollAttempts - 1,
                     restarts |-> 0]

\* The steps between a paid checkout and COMPLETED, while days pass.
TimedNext ==
  \/ Tick
  \/ CreateOrder
  \/ \E o \in OrderIds : CreateSession(o)
  \/ \E o \in OrderIds : StoreSession(o)
  \/ \E o \in OrderIds : CompletedRead(o)
  \/ \E o \in OrderIds : CompletedWrite(o)
  \/ \E o \in OrderIds : ProcessOrderRead(o)
  \/ \E o \in OrderIds : ProcessOrderPending(o)
  \/ \E o \in OrderIds : ProcessOrderCreateTx(o)
  \/ \E t \in TxIds : ProcessOrderProcessing(t)
  \/ \E t \in TxIds : ProcessOrderCallAdapter(t)
  \/ \E t \in TxIds : ProcessOrderSubmitted(t)
  \/ \E t \in TxIds : ProcessOrderStamp(t)
  \/ \E t \in TxIds : ProcessOrderFailed(t)
  \/ \E t \in TxIds : ProcessOrderCatch(t)
  \/ \E t \in TxIds : ChainAdvance(t)
  \/ \E t \in TxIds : PollRead(t)
  \/ \E t \in TxIds : PollExhausted(t)
  \/ \E t \in TxIds : PollCheck(t)
  \/ \E t \in TxIds : PollWriteTx(t)
  \/ \E t \in TxIds : PollWriteOrder(t)
  \/ SweepStart
  \/ SweepEnd
  \/ \E t \in TxIds : SweepCheck(t)
  \/ SweepWriteTx
  \/ SweepWriteOrder

TimedSpec == TimedInit /\ [][TimedNext]_vars

\* ------------------------------------------------- POST /webhook, in full
\* What a request carries: the stripe-signature header (absent, one that
\* does not verify against the payload, one that does), the event type, and
\* the metadata.orderId / metadata.paymentId pair or the payment intent
\* (0 for none, MaxOrders + 1 for ids that no row has).
Signatures == {"missing", "invalid", "valid"}

EventTypes ==
  {"checkout.session.completed", "checkout.session.expired",
   "payment_intent.succeeded", "payment_intent.payment_failed", "other"}

HookTargets == 0..(MaxOrders + 1)

HookIds == 1..Len(hooks)

\* A verification that lets every signature through.
VerifySignature_Any(sig) == TRUE

\* stripe.webhooks.constructEvent returns the event instead of throwing
\* StripeSignatureVerificationError.
VerifySignature(sig) == sig = "valid"

\* The route's reply to a result of handleWebhook: 200 on success and 400 on
\* an error result; 200 from its own catch block ("thrown").
Respond(result) == IF result \in {"ok", "thrown"} THEN 200 ELSE 400

\* Request h is answered.
HookDone(h, result) ==
  [hooks EXCEPT ![h].pc = "done", ![h].result = result, ![h].status = Respond(result)]

\* The payment row with this id exists.
PaymentExists(q) == q \in 1..Len(payments)

\* Where handleWebhook stands at its first await, for an event that passed
\* verification: the handler's first store call, or "done" when the handler
\* returns before any (unhandled type, metadata missing).
FirstAwait(type, target) ==
  IF type = "checkout.session.completed" THEN (IF target = 0 THEN "done" ELSE "ccRead")
  ELSE IF type = "checkout.session.expired" THEN (IF target = 0 THEN "done" ELSE "ceWrite")
  ELSE IF type = "payment_intent.succeeded" THEN "psRead"
  ELSE IF type = "payment_intent.payment_failed" THEN "pfRead"
  ELSE "done"

\* The result of the part of the request that runs before the first await:
\* the route throws on a missing header, constructEvent throws on a bad
\* signature, a handler that returns at once gives success.
EarlyResult(sig, type, target) ==
  IF sig = "missing" THEN "thrown"
  ELSE IF ~VerifySignature(sig) THEN "INVALID_SIGNATURE"
  ELSE IF FirstAwait(type, target) = "done" THEN "ok"
  ELSE "none"

\* A request arrives and runs up to its first await.  The processor signs
\* events of sessions that exist; anyone can send the rest.
HookArrive ==
  /\ Len(hooks) < MaxHooks
  /\ \E sig \in Signatures, type \in EventTypes, target \in HookTargets :
       /\ sig = "valid" => target \in stripe \cup {0, MaxOrders + 1}
       /\ LET r == EarlyResult(sig, type, target)
          IN /\ hooks' = Append(hooks,
                  [pc |-> IF r = "none" THEN FirstAwait(type, target) ELSE "done",
                   sig |-> sig, type |-> type, target |-> target, result |-> r,
                   status |-> IF r = "none" THEN 0 ELSE Respond(r)])
             /\ last' = Ret("webhook", target, r)
  /\ UNCHANGED <<store, checkout, stripe, pend, procSched, procRun, runs, pollers,
                 sweep, chain, retryPend, adapterCalls, wh, budget, calls, plans,
                 customer, orderKeys, snapshots, payOrder, alloc, clock, txParams>>

\* handleCheckoutCompleted: payment.findUnique and the idempotency test.
HookCompletedRead(h) ==
  /\ hooks[h].pc = "ccRead"
  /\ LET q == hooks[h].target
     IN IF PaymentExists(q) /\ payments[q].status = "SUCCEEDED"
          THEN /\ hooks' = HookDone(h, "ok")
               /\ last' = Ret("webhook", q, "ok")
          ELSE /\ hooks' = [hooks EXCEPT ![h].pc = "ccWrite"]
               /\ last' = Quiet
  /\ UNCHANGED <<store, checkout, stripe, pend, procSched, procRun, runs, pollers,
                 sweep, chain, retryPend, adapterCalls, wh, budget, calls, plans,
                 customer, orderKeys, snapshots, payOrder, alloc, clock, txParams>>

\* handleCheckoutCompleted: the store transaction and the detached trigger.
\* payment.update throws when no row has the id; the transaction rolls back
\* and the catch block of handleWebhook returns WEBHOOK_FAILED.
HookCompletedWrite(h) ==
  /\ hooks[h].pc = "ccWrite"
  /\ LET q == hooks[h].target
     IN IF PaymentExists(q)
          THEN /\ payments' = [payments EXCEPT ![q].status = "SUCCEEDED", ![q].intent = TRUE]
               /\ orders' = SetOrderStatus(q, "PAYMENT_COMPLETED")
               /\ procSched' = Bump(procSched, q)
               /\ wh' = [wh EXCEPT ![q] = IF @ = "none" THEN "completed" ELSE @]
               /\ hooks' = HookDone(h, "ok")
               /\ last' = Ret("webhook", q, "ok")
          ELSE /\ hooks' = HookDone(h, "WEBHOOK_FAILED")
               /\ last' = Ret("webhook", q, "WEBHOOK_FAILED")
               /\ UNCHANGED <<payments, orders, procSched, wh>>
  /\ UNCHANGED <<txs, checkout, stripe, pend, procRun, runs, pollers,
                 sweep, chain, retryPend, adapterCalls, budget, calls, plans,
                 customer, orderKeys, snapshots, payOrder, alloc, clock, txParams>>

\* handleCheckoutExpired: the store transaction, which throws likewise.
HookExpiredWrite(h) ==
  /\ hooks[h].pc = "ceWrite"
  /\ LET q == hooks[h].target
     IN IF PaymentExists(q)
          THEN /\ payments' = SetPaymentStatus(q, "CANCELLED")
               /\ orders' = SetOrderStatus(q, "CANCELLED")
               /\ wh' = [wh EXCEPT ![q] = "mixed"]
               /\ hooks' = HookDone(h, "ok")
               /\ last' = Ret("webhook", q, "ok")
          ELSE /\ hooks' = HookDone(h, "WEBHOOK_FAILED")
               /\ last' = Ret("webhook", q, "WEBHOOK_FAILED")
               /\ UNCHANGED <<payments, orders, wh>>
  /\ UNCHANGED <<txs, checkout, stripe, pend, procSched, procRun, runs, pollers,
                 sweep, chain, retryPend, adapterCalls, budget, calls, plans,
                 customer, orderKeys, snapshots, payOrder, alloc, clock, txParams>>

\* payment.findUnique({ stripePaymentIntentId }) found a row.
IntentFound(q) == PaymentExists(q) /\ payments[q].intent

\* handlePaymentSucceeded and handlePaymentFailed: the read and the test.
HookIntentRead(h) ==
  /\ hooks[h].pc \in {"psRead", "pfRead"}
  /\ LET q == hooks[h].target
         go == IF hooks[h].pc = "psRead"
                 THEN IntentFound(q) /\ payments[q].status # "SUCCEEDED"
                 ELSE IntentFound(q)
     IN IF go
          THEN /\ hooks' = [hooks EXCEPT ![h].pc = IF @ = "psRead" THEN "psWrite" ELSE "pfWrite"]
               /\ last' = Quiet
          ELSE /\ hooks' = HookDone(h, "ok")
               /\ last' = Ret("webhook", q, "ok")
  /\ UNCHANGED <<store, checkout, stripe, pend, procSched, procRun, runs, pollers,
                 sweep, chain, retryPend, adapterCalls, wh, budget, calls, plans,
                 customer, orderKeys, snapshots, payOrder, alloc, clock, txParams>>

\* handlePaymentSucceeded: payment.update { status: SUCCEEDED }.
HookSucceededWrite(h) ==
  /\ hooks[h].pc = "psWrite"
  /\ payments' = SetPaymentStatus(hooks[h].target, "SUCCEEDED")
  /\ hooks' = HookDone(h, "ok")
  /\ last' = Ret("webhook", hooks[h].target, "ok")
  /\ UNCHANGED <<orders, txs, checkout, stripe, pend, procSched, procRun, runs, pollers,
                 sweep, chain, retryPend, adapterCalls, wh, budget, calls, plans,
                 customer, orderKeys, snapshots, payOrder, alloc, clock, txParams>>

\* handlePaymentFailed: the store transaction.
HookFailedWrite(h) ==
  /\ hooks[h].pc = "pfWrite"
  /\ payments' = SetPaymentStatus(hooks[h].target, "FAILED")
  /\ orders' = SetOrderStatus(payOrder[hooks[h].target], "PAYMENT_FAILED")
  /\ wh' = [wh EXCEPT ![payOrder[hooks[h].target]] = "mixed"]
  /\ hooks' = HookDone(h, "ok")
  /\ last' = Ret("webhook", hooks[h].target, "ok")
  /\ UNCHANGED <<txs, checkout, stripe, pend, procSched, procRun, runs, pollers,
                 sweep, chain, retryPend, adapterCalls, budget, calls, plans,
                 customer, orderKeys, snapshots, payOrder, alloc, clock, txParams>>

\* Checkouts and webhook requests; no delivery is counted against budget.
WebhookInit ==
  Fresh /\ budget = [ops |-> 0, retry |-> 0, polls |-> MaxPollAttempts - 1, restarts |-> 0]

WebhookNext ==
  \/ CreateOrder
  \/ \E o \in OrderIds : CreateSession(o)
  \/ \E o \in OrderIds : StoreSession(o)
  \/ HookArrive
  \/ \E h \in HookIds : HookCompletedRead(h)
  \/ \E h \in HookIds : HookCompletedWrite(h)
  \/ \E h \in HookIds : HookExpiredWrite(h)
  \/ \E h \in HookIds : HookIntentRead(h)
  \/ \E h \in HookIds : HookSucceededWrite(h)
  \/ \E h \in HookIds : HookFailedWrite(h)

WebhookSpec == WebhookInit /\ [][WebhookNext]_vars

\* ----------------------------------------------- the paid path, scheduled
\* The steps of the processOrder run of order o and of transaction t, of the
\* poller of t, and of the cron job.
ProcessOrderStep(o) ==
  \/ ProcessOrderRead(o)
  \/ ProcessOrderPending(o)
  \/ ProcessOrderCreateTx(o)

ProcessOrderRunStep(t) ==
  \/ ProcessOrderProcessing(t)
  \/ ProcessOrderCallAdapter(t)
  \/ ProcessOrderSubmitted(t)
  \/ ProcessOrderStamp(t)
  \/ ProcessOrderFailed(t)
  \/ ProcessOrderCatch(t)

PollStep(t) ==
  \/ PollRead(t)
  \/ PollExhausted(t)
  \/ PollCheck(t)
  \/ PollWriteTx(t)
  \/ PollWriteOrder(t)

CronStep ==
  \/ CronSweep
  \/ SweepEnd
  \/ \E t \in TxIds : SweepCheck(t)
  \/ SweepWriteTx
  \/ SweepWriteOrder

\* The status call of the sweep comes back with the network's verdict.
SweepReports(t) == SweepCheck(t) /\ sweep'.pc = "got" /\ sweep'.res = chain[t]

\* The event loop runs every handler that can take a step, the cron job
\* keeps firing, the network settles what was submitted, and of the status
\* calls the sweep makes for a transaction some get through to the network.
Scheduling ==
  /\ \A o \in 1..MaxOrders :
       /\ WF_vars(o \in OrderIds /\ CompletedWrite(o))
       /\ WF_vars(o \in OrderIds /\ ProcessOrderStep(o))
  /\ \A t \in 1..MaxTxs :
       /\ WF_vars(t \in TxIds /\ ProcessOrderRunStep(t))
       /\ WF_vars(t \in TxIds /\ PollStep(t))
       /\ WF_vars(t \in TxIds /\ ChainAdvance(t))
       /\ SF_vars(t \in TxIds /\ SweepReports(t))
  /\ WF_vars(CronStep)

\* One delivery of checkout.session.completed; pollers make MaxPollAttempts
\* iterations.
HappyInit ==
  Fresh /\ budget = [ops |-> 1, retry |-> 0, polls |-> MaxPollAttempts, restarts |-> 0]

HappyNext ==
  \/ CreateOrder
  \/ \E o \in OrderIds : CreateSession(o)
  \/ \E o \in OrderIds : StoreSession(o)
  \/ \E o \in OrderIds : CompletedRead(o)
  \/ \E o \in OrderIds : CompletedWrite(o)
  \/ \E o \in OrderIds : ProcessOrderRead(o)
  \/ \E o \in OrderIds : ProcessOrderPending(o)
  \/ \E o \in OrderIds : ProcessOrderCreateTx(o)
  \/ \E t \in TxIds : ProcessOrderProcessing(t)
  \/ \E t \in TxIds : ProcessOrderCallAdapter(t)
  \/ \E t \in TxIds : ProcessOrderSubmitted(t)
  \/ \E t \in TxIds : ProcessOrderStamp(t)
  \/ \E t \in TxIds : ProcessOrderFailed(t)
  \/ \E t \in TxIds : ProcessOrderCatch(t)
  \/ \E t \in TxIds : ChainAdvance(t)
  \/ \E t \in TxIds : PollRead(t)
  \/ \E t \in TxIds : PollExhausted(t)
  \/ \E t \in TxIds : PollCheck(t)
  \/ \E t \in TxIds : PollWriteTx(t)
  \/ \E t \in TxIds : PollWriteOrder(t)
  \/ CronSweep
  \/ SweepEnd
  \/ \E t \in TxIds : SweepCheck(t)
  \/ SweepWriteTx
  \/ SweepWriteOrder

HappySpec == HappyInit /\ [][HappyNext]_vars /\ Scheduling

\* The process stops and starts again: every handler in flight is gone, the
\* store and the network keep what they have.
Crash ==
  /\ budget.restarts > 0
  /\ budget' = [budget EXCEPT !.restarts = @ - 1]
  /\ pend' = [cc |-> [o \in OrderIds |-> 0], ps |-> [o \in OrderIds |-> 0],
              pf |-> [o \in OrderIds |-> 0], cancel |-> [o \in OrderIds |-> 0]]
  /\ procSched' = [o \in OrderIds |-> 0]
  /\ procRun' = [p2 |-> [o \in OrderIds |-> 0], p3 |-> [o \in OrderIds |-> 0],
                 held |-> [o \in OrderIds |-> EmptyBag]]
  /\ checkout' = [o \in OrderIds |->
                    IF checkout[o] \in {"created", "sessioned"} THEN "failed" ELSE checkout[o]]
  /\ runs' = [t \in TxIds |->
                IF runs[t] \in {"returnedOk", "returnedFailed", "returnedThrown"}
                  THEN runs[t] ELSE "lost"]
  /\ pollers' = [t \in TxIds |->
                   IF pollers[t].pc = "none" THEN pollers[t]
                   ELSE [pollers[t] EXCEPT !.pc = "done", !.res = "NONE", !.err = NoMessage]]
  /\ retryPend' = [t \in TxIds |-> 0]
  /\ sweep' = SweepIdle
  /\ calls' = [c \in CallIds |-> Returned]
  /\ hooks' = [h \in HookIds |-> [hooks[h] EXCEPT !.pc = "done"]]
  /\ last' = Ret("crash", 0, "restart")
  /\ UNCHANGED <<store, stripe, chain, adapterCalls, wh, plans, customer, orderKeys,
                 snapshots, payOrder, alloc, clock, txParams>>

\* One delivery of checkout.session.completed and one restart.
RecoveryInit ==
  Fresh /\ budget = [ops |-> 1, retry |-> 0, polls |-> MaxPollAttempts - 1, restarts |-> 1]

RecoveryNext ==
  \/ Crash
  \/ CreateOrder
  \/ \E o \in OrderIds : CreateSession(o)
  \/ \E o \in OrderIds : StoreSession(o)
  \/ \E o \in OrderIds : CompletedRead(o)
  \/ \E o \in OrderIds : CompletedWrite(o)
  \/ \E o \in OrderIds : ProcessOrderRead(o)
  \/ \E o \in OrderIds : ProcessOrderPending(o)
  \/ \E o \in OrderIds : ProcessOrderCreateTx(o)
  \/ \E t \in TxIds : ProcessOrderProcessing(t)
  \/ \E t \in TxIds : ProcessOrderCallAdapter(t)
  \/ \E t \in TxIds : ProcessOrderSubmitted(t)
  \/ \E t \in TxIds : ProcessOrderStamp(t)
  \/ \E t \in TxIds : ProcessOrderFailed(t)
  \/ \E t \in TxIds : ProcessOrderCatch(t)
  \/ \E t \in TxIds : ChainAdvance(t)
  \/ \E t \in TxIds : PollRead(t)
  \/ \E t \in TxIds : PollExhausted(t)
  \/ \E t \in TxIds : PollCheck(t)
  \/ \E t \in TxIds : PollWriteTx(t)
  \/ \E t \in TxIds : PollWriteOrder(t)
  \/ CronSweep
  \/ SweepEnd
  \/ \E t \in TxIds : SweepCheck(t)
  \/ SweepWriteTx
  \/ SweepWriteOrder

RecoverySpec == RecoveryInit /\ [][RecoveryNext]_vars /\ Scheduling

\* ------------------------------------------- the paid path, plans synced
\* Two deliveries of checkout.session.completed.
AllocationInit ==
  Fresh /\ budget = [ops |-> 2, retry |-> 0, polls |-> MaxPollAttempts - 1, restarts |-> 0]

\* Checkout, payment and the processOrder run, while the provider sync
\* rewrites the plan.
AllocationNext ==
  \/ CreateOrder
  \/ \E o \in OrderIds : CreateSession(o)
  \/ \E o \in OrderIds : StoreSession(o)
  \/ \E p \in PlanIds : SyncPlanUpdate(p)
  \/ \E o \in OrderIds : CompletedRead(o)
  \/ \E o \in OrderIds : CompletedWrite(o)
  \/ \E o \in OrderIds : ProcessOrderRead(o)
  \/ \E o \in OrderIds : ProcessOrderPending(o)
  \/ \E o \in OrderIds : ProcessOrderCreateTx(o)
  \/ \E t \in TxIds : ProcessOrderProcessing(t)
  \/ \E t \in TxIds : ProcessOrderCallAdapter(t)
  \/ \E t \in TxIds : ProcessOrderSubmitted(t)
  \/ \E t \in TxIds : ProcessOrderStamp(t)
  \/ \E t \in TxIds : ProcessOrderFailed(t)
  \/ \E t \in TxIds : ProcessOrderCatch(t)

AllocationSpec == AllocationInit /\ [][AllocationNext]_vars

\* ================================================================ claims
\* C1: an order never has more than one BlockchainTransaction row whose
\* status is not FAILED, whatever the interleaving of webhook deliveries,
\* processOrder runs, retries, pollers and sweep passes.
C1_OneLiveTx == \A o \in OrderIds : Cardinality(ExistingTx(o)) <= 1

\* C2: the status of an order never moves backward along the chain
\* PENDING_PAYMENT, PAYMENT_PROCESSING, PAYMENT_COMPLETED, BLOCKCHAIN_PENDING,
\* BLOCKCHAIN_PROCESSING, BLOCKCHAIN_CONFIRMED, COMPLETED, REFUNDED: a step
\* between two statuses of the chain never lands on an earlier one.
C2_NoBackward ==
  [][LET Forward == <<"PENDING_PAYMENT", "PAYMENT_PROCESSING", "PAYMENT_COMPLETED",
                      "BLOCKCHAIN_PENDING", "BLOCKCHAIN_PROCESSING",
                      "BLOCKCHAIN_CONFIRMED", "COMPLETED", "REFUNDED">>
         Pos(s) == CHOOSE i \in DOMAIN Forward : Forward[i] = s
         OnChain(s) == \E i \in DOMAIN Forward : Forward[i] = s
     IN \A o \in OrderIds :
          (OnChain(orders[o].status) /\ OnChain(orders'[o].status))
            => Pos(orders'[o].status) >= Pos(orders[o].status)]_vars

\* C3: a step of a webhook handler never changes the status of an order that
\* is BLOCKCHAIN_PENDING, BLOCKCHAIN_PROCESSING, BLOCKCHAIN_FAILED or COMPLETED.
C3_WebhookKeepsAllocation ==
  [][\A o \in OrderIds :
       (/\ last'.op \in {"completed", "expired", "succeeded", "failed"}
        /\ last'.id = o
        /\ orders[o].status \in {"BLOCKCHAIN_PENDING", "BLOCKCHAIN_PROCESSING",
                                 "BLOCKCHAIN_FAILED", "COMPLETED"})
         => orders'[o].status = orders[o].status]_vars

\* C4: an order is created in PENDING_PAYMENT and every later change of its
\* status follows one of the edges PENDING_PAYMENT -> PAYMENT_PROCESSING or
\* CANCELLED, PAYMENT_PROCESSING -> PAYMENT_COMPLETED or PAYMENT_FAILED,
\* PAYMENT_COMPLETED -> BLOCKCHAIN_PENDING, BLOCKCHAIN_PENDING ->
\* BLOCKCHAIN_PROCESSING, BLOCKCHAIN_PROCESSING -> BLOCKCHAIN_CONFIRMED or
\* BLOCKCHAIN_FAILED, BLOCKCHAIN_CONFIRMED -> COMPLETED, COMPLETED -> REFUNDED.
C4_PermittedEdges ==
  [][LET Edges == {<<"PENDING_PAYMENT", "PAYMENT_PROCESSING">>,
                   <<"PENDING_PAYMENT", "CANCELLED">>,
                   <<"PAYMENT_PROCESSING", "PAYMENT_COMPLETED">>,
                   <<"PAYMENT_PROCESSING", "PAYMENT_FAILED">>,
                   <<"PAYMENT_COMPLETED", "BLOCKCHAIN_PENDING">>,
                   <<"BLOCKCHAIN_PENDING", "BLOCKCHAIN_PROCESSING">>,
                   <<"BLOCKCHAIN_PROCESSING", "BLOCKCHAIN_CONFIRMED">>,
                   <<"BLOCKCHAIN_PROCESSING", "BLOCKCHAIN_FAILED">>,
                   <<"BLOCKCHAIN_CONFIRMED", "COMPLETED">>,
                   <<"COMPLETED", "REFUNDED">>}
     IN /\ \A o \in OrderIds :
             orders'[o].status # orders[o].status
               => <<orders[o].status, orders'[o].status>> \in Edges
        /\ \A o \in (1..Len(orders')) \ OrderIds :
             orders'[o].status = "PENDING_PAYMENT"]_vars

\* C5: once a checkout.session.completed delivery has been handled, and no
\* other kind of event has been handled for the order, a further delivery of
\* it changes no Payment, Order or BlockchainTransaction row, creates none,
\* leaves nothing to be written later and triggers no processOrder run, so
\* no adapter submission.
C5_RedeliveryIsNoop ==
  [][\A o \in OrderIds :
       (/\ budget'.ops = budget.ops - 1
        /\ last'.op = "completed"
        /\ last'.id = o
        /\ wh[o] = "completed")
         => /\ UNCHANGED <<orders, payments, txs, pend, procSched, procRun,
                           runs, adapterCalls>>
            /\ last'.out = "noop"]_vars

\* C5 witness: a delivery arrived after an earlier one was handled and was
\* answered without a write.
C5_Witness ==
  \E o \in OrderIds : last = Ret("completed", o, "noop") /\ wh[o] = "completed"

\* C6: with only checkout.session.completed deliveries and operator retries
\* at work, executeStorageTransaction is called at most once for an order and
\* at most one BlockchainTransaction row is created for it.
C6_OneSubmission ==
  \A o \in OrderIds :
    wh[o] # "mixed"
      => /\ adapterCalls[o] <= 1
         /\ Cardinality({t \in TxIds : txs[t].orderId = o}) <= 1

\* C7: no BlockchainTransaction row has retryCount above maxRetries.
C7_RetryBudget == \A t \in TxIds : txs[t].retryCount <= txs[t].maxRetries

\* C8: for a transaction that failed at submission, retryTransaction calls
\* made one after the other (no other retry of the row and no processOrder
\* run of its order in flight) are rejected for no reason other than the
\* exhausted budget: none returns INVALID_STATUS.
C8_RetriesPassUntilExhausted ==
  \A t \in TxIds :
    (/\ runs[t] = "returnedFailed"
     /\ retryPend[t] = 0
     /\ procSched[txs[t].orderId] = 0
     /\ procRun.p2[txs[t].orderId] = 0
     /\ procRun.p3[txs[t].orderId] = 0)
      => last # Ret("retryTransaction", t, "INVALID_STATUS")

\* C9: after retryTransaction has set a transaction to RETRYING, the
\* processOrder run it starts for the BLOCKCHAIN_FAILED order goes on to a
\* new submission: it is never turned away with INVALID_ORDER_STATUS.
C9_RetryResubmits ==
  \A o \in OrderIds :
    (/\ orders[o].status = "BLOCKCHAIN_FAILED"
     /\ \E t \in TxIds : txs[t].orderId = o /\ txs[t].status = "RETRYING")
      => last # Ret("processOrder", o, "INVALID_ORDER_STATUS")

\* C10: a processOrder call that reads an order whose status is not
\* PAYMENT_COMPLETED returns INVALID_ORDER_STATUS at once: it changes no
\* Order or BlockchainTransaction row, creates none, calls no adapter and
\* leaves no run behind that would.
C10_WrongStatusRejected ==
  [][\A o \in OrderIds :
       (procSched'[o] = procSched[o] - 1 /\ orders[o].status # "PAYMENT_COMPLETED")
         => /\ last' = Ret("processOrder", o, "INVALID_ORDER_STATUS")
            /\ UNCHANGED <<orders, payments, txs, procRun, runs, pollers,
                           chain, adapterCalls>>]_vars

\* C10 witness: a processOrder call was turned away for the order's status.
C10_Witness ==
  \E o \in OrderIds :
    /\ last = Ret("processOrder", o, "INVALID_ORDER_STATUS")
    /\ orders[o].status # "PAYMENT_COMPLETED"

\* C11: a processOrder call that reads an order in PAYMENT_COMPLETED which
\* has a BlockchainTransaction whose status is not FAILED returns the id of
\* such a row and does nothing else: no Order, Payment or transaction row
\* changes, none is created, no run is left behind and
\* executeStorageTransaction is not called.
C11_ExistingTxReturned ==
  [][\A o \in OrderIds :
       LET Live == {t \in TxIds : txs[t].orderId = o /\ txs[t].status # "FAILED"}
       IN (/\ procSched'[o] = procSched[o] - 1
           /\ orders[o].status = "PAYMENT_COMPLETED"
           /\ Live # {})
            => /\ \E t \in Live : last' = Ret("processOrder", o, TxId(t))
               /\ UNCHANGED <<orders, payments, txs, procRun, runs, pollers,
                              chain, adapterCalls>>]_vars

\* C11 witness: a processOrder call was answered with the id of a row that
\* the order already had.
C11_Witness ==
  \E o \in OrderIds : \E t \in TxIds :
    /\ last = Ret("processOrder", o, TxId(t))
    /\ txs[t].orderId = o
    /\ txs[t].status # "FAILED"

\* C12: when the buyer has cancelled an order and a checkout.session.completed
\* delivery for it arrives afterwards, the handler's next write leaves the
\* order CANCELLED and schedules no processOrder run.
C12_CancelledStaysCancelled ==
  [][\A o \in OrderIds :
       (/\ last = Ret("completed", o, "read")
        /\ pend.cc[o] = 1
        /\ wh[o] = "none"
        /\ orders[o].status = "CANCELLED")
         => /\ orders'[o].status = "CANCELLED"
            /\ procSched'[o] = procSched[o]]_vars

\* C13: when checkout.session.expired has been handled for an order (Order
\* and Payment CANCELLED) and a checkout.session.completed delivery for the
\* same session arrives afterwards, the handler's next write leaves Order
\* and Payment CANCELLED and schedules no processOrder run.
C13_ExpiredThenCompletedIgnored ==
  [][\A o \in OrderIds :
       (/\ last = Ret("completed", o, "read")
        /\ pend.cc[o] = 1
        /\ payments[o].status = "CANCELLED"
        /\ orders[o].status = "CANCELLED")
         => /\ orders'[o].status = "CANCELLED"
            /\ payments'[o].status = "CANCELLED"
            /\ procSched'[o] = procSched[o]]_vars

\* C14: cancelOrder writes CANCELLED only onto an order whose status is
\* PENDING_PAYMENT at the moment of the write, also when a webhook was
\* handled between its read and its write; a call that reads any other
\* status fails and leaves the order unchanged.
C14_CancelOnlyFromPending ==
  [][\A o \in OrderIds :
       /\ last' = Ret("cancelOrder", o, "ok") => orders[o].status = "PENDING_PAYMENT"
       /\ (/\ budget'.ops = budget.ops - 1
           /\ last'.op = "cancelOrder"
           /\ last'.id = o
           /\ orders[o].status # "PENDING_PAYMENT")
            => last'.out = "error" /\ UNCHANGED <<orders, pend>>]_vars

C16_KeyWithoutSessionSucceeds ==
  [][\A c \in CallIds :
       (calls'[c] # calls[c] /\ calls[c].pc = "create" /\ calls[c].found # 0)
         => /\ last' = Ret("checkout", calls[c].found, "ok")
            /\ Len(orders') = Len(orders)
            /\ Len(payments') = Len(payments)]_vars

\* C17: a createCheckoutSession call that reaches the plan lookup with an
\* unknown planId returns PLAN_NOT_FOUND, with a plan that is not AVAILABLE
\* or not active PLAN_UNAVAILABLE, and one that reaches the user lookup with
\* an unknown userId USER_NOT_FOUND; a call that returns one of the three
\* has created no order, and its return creates no Order or Payment row and
\* no processor session.
C17_FailedPreconditionCreatesNothing ==
  [][\A c \in CallIds :
       calls'[c] # calls[c] =>
         /\ (calls[c].pc = "plan" /\ calls[c].planId \notin PlanIds)
              => last' = Ret("checkout", 0, "PLAN_NOT_FOUND")
         /\ (/\ calls[c].pc = "plan"
             /\ calls[c].planId \in PlanIds
             /\ (plans[calls[c].planId].status # "AVAILABLE" \/ ~plans[calls[c].planId].isActive))
              => last' = Ret("checkout", 0, "PLAN_UNAVAILABLE")
         /\ (calls[c].pc = "user" /\ calls[c].userId \notin Users)
              => last' = Ret("checkout", 0, "USER_NOT_FOUND")
         /\ (/\ last'.op = "checkout"
             /\ last'.out \in {"PLAN_NOT_FOUND", "PLAN_UNAVAILABLE", "USER_NOT_FOUND"})
              => /\ calls[c].made = 0
                 /\ calls'[c].pc = "done"
                 /\ UNCHANGED <<orders, payments, payOrder, orderKeys, snapshots,
                                stripe, checkout>>]_vars

\* C17 witness: a call was turned away because a sync had withdrawn its plan.
C17_Witness == last = Ret("checkout", 0, "PLAN_UNAVAILABLE") /\ orders = <<>>

\* C18: in every reachable state every order has at most one Payment whose
\* status is PENDING, PROCESSING or SUCCEEDED.
C18_OneOpenPayment ==
  \A o \in OrderIds :
    Cardinality({q \in 1..Len(payments) :
                   payOrder[q] = o
                   /\ payments[q].status \in {"PENDING", "PROCESSING", "SUCCEEDED"}}) <= 1

\* C18 witness: two orders, one paid and one still awaiting payment.
C18_Witness ==
  /\ Len(orders) = 2
  /\ \E q \in 1..Len(payments) : payments[q].status = "SUCCEEDED"
  /\ \E q \in 1..Len(payments) : payments[q].status = "PENDING"

\* C19 as stated: the terms on a new order equal those of its plan at the
\* moment the order is created, and the terms on an order never change.
C19_SnapshotOfPlanAtCreation ==
  [][\A o \in 1..Len(orders') :
       IF o \in OrderIds
         THEN snapshots'[o] = snapshots[o]
         ELSE LET plan == plans[snapshots'[o].planId]
              IN /\ snapshots'[o].storageSizeGb = plan.storageSizeGb
                 /\ snapshots'[o].durationDays = plan.durationDays
                 /\ snapshots'[o].priceUsdCents = plan.priceUsdCents]_vars

\* C19 amended: the terms on a new order equal those of its plan as the
\* creating call read it (the plan lookup comes before the store
\* transaction, and a sync may run between the two), and the terms on an
\* order never change, whatever happens to the plan.
C19_SnapshotOfPlanAsRead ==
  [][/\ \A c \in CallIds :
          (calls'[c] # calls[c] /\ calls[c].pc = "plan" /\ calls'[c].pc = "user")
            => LET plan == plans[calls[c].planId]
               IN /\ calls'[c].terms.storageSizeGb = plan.storageSizeGb
                  /\ calls'[c].terms.durationDays = plan.durationDays
                  /\ calls'[c].terms.priceUsdCents = plan.priceUsdCents
     /\ \A c \in CallIds :
          (calls[c].pc = "create" /\ calls'[c].pc = "session")
            => LET o == calls'[c].made
               IN /\ o = Len(orders) + 1
                  /\ snapshots'[o].planId = calls[c].planId
                  /\ snapshots'[o].storageSizeGb = calls[c].terms.storageSizeGb
                  /\ snapshots'[o].durationDays = calls[c].terms.durationDays
                  /\ snapshots'[o].priceUsdCents = calls[c].terms.priceUsdCents
     /\ \A c \in CallIds :
          (calls[c].pc \in {"user", "customer", "create"} /\ calls'[c].pc # "done")
            => calls'[c].terms = calls[c].terms
     /\ \A o \in OrderIds : snapshots'[o] = snapshots[o]]_vars

\* C19 witness: an order keeps the price it was created with after a sync
\* has changed the price of its plan.
C19_Witness ==
  \E o \in OrderIds :
    snapshots[o].priceUsdCents # plans[snapshots[o].planId].priceUsdCents

\* C20: in every reachable state an order that is COMPLETED has allocatedAt
\* set and expiresAt equal to allocatedAt plus its durationDays.
C20_CompletedIsStamped ==
  \A o \in OrderIds :
    orders[o].status = "COMPLETED"
      => /\ alloc[o].allocatedAt # Null
         /\ alloc[o].expiresAt = alloc[o].allocatedAt + snapshots[o].durationDays

\* C20 witness: an order completed after the first day, so its timestamps
\* are not those of the start.
C20_Witness ==
  \E o \in OrderIds : orders[o].status = "COMPLETED" /\ alloc[o].allocatedAt > 0

\* C21: allocatedAt and expiresAt of an order are written once: no step of
\* the poller or of the sweep writes the timestamps of an order that already
\* has them, also when both handle the same transaction at the same time.
C21_ExpiresAtWrittenOnce ==
  [][\A o \in OrderIds :
       alloc[o].expiresAt # Null
         => /\ alloc'[o] = alloc[o]
            /\ \A t \in TxIds :
                 (txs[t].orderId = o /\ pollers[t].pc = "order" /\ pollers[t].res = "CONFIRMED")
                   => pollers'[t] = pollers[t]
            /\ (sweep.pc = "order" /\ sweep.res = "CONFIRMED" /\ txs[sweep.cur].orderId = o)
                 => sweep' = sweep]_vars

\* C24: in every reachable state every BlockchainTransaction whose status is
\* SUBMITTED, CONFIRMING or CONFIRMED has a txHash.
C24_SubmittedHasHash ==
  \A t \in TxIds :
    txs[t].status \in {"SUBMITTED", "CONFIRMING", "CONFIRMED"} => txs[t].txHash # 0

\* C24 witness: a submitted transaction that the poller or the sweep has
\* since moved to CONFIRMING.
C24_Witness == \E t \in TxIds : txs[t].status = "CONFIRMING" /\ txs[t].txHash # 0

\* C28: a processOrder run that passed its guards takes its steps in this
\* order: it sets the order to BLOCKCHAIN_PENDING; then it inserts a
\* BlockchainTransaction row with status PENDING for the order; then it sets
\* the order to BLOCKCHAIN_PROCESSING; only then it calls
\* executeStorageTransaction.  Every adapter call is made by a run that has
\* inserted a row for the order, and no earlier step of a run calls it.
C28_StepsInOrder ==
  [][/\ \A o \in OrderIds :
          procRun'.p3[o] > procRun.p3[o]
            => /\ procRun'.p2[o] = procRun.p2[o] - 1
               /\ orders'[o].status = "BLOCKCHAIN_PENDING"
               /\ UNCHANGED <<txs, adapterCalls>>
     /\ Len(txs') # Len(txs)
          => LET t == Len(txs) + 1
                 o == txs'[t].orderId
             IN /\ Len(txs') = t
                /\ procRun'.p3[o] = procRun.p3[o] - 1
                /\ txs'[t].status = "PENDING"
                /\ runs'[t] = "setProcessing"
                /\ UNCHANGED <<orders, adapterCalls>>
     /\ \A t \in TxIds :
          (runs[t] = "setProcessing" /\ runs'[t] # runs[t])
            => /\ runs'[t] = "callAdapter"
               /\ orders'[txs[t].orderId].status = "BLOCKCHAIN_PROCESSING"
               /\ UNCHANGED <<txs, adapterCalls>>
     /\ \A o \in OrderIds :
          adapterCalls'[o] # adapterCalls[o]
            => /\ adapterCalls'[o] = adapterCalls[o] + 1
               /\ \E t \in TxIds :
                    /\ txs[t].orderId = o
                    /\ runs[t] = "callAdapter"
                    /\ runs'[t] # runs[t]]_vars

\* C28 witness: the adapter has just been called for an order that is
\* BLOCKCHAIN_PROCESSING and has a transaction row still PENDING.
C28_Witness ==
  \E o \in OrderIds :
    /\ last = Ret("executeStorageTransaction", o, "called")
    /\ orders[o].status = "BLOCKCHAIN_PROCESSING"
    /\ \E t \in TxIds : txs[t].orderId = o /\ txs[t].status = "PENDING"

\* C29: when executeStorageTransaction has returned a failure result, the
\* next step of the processOrder run sets the transaction to FAILED with the
\* adapter's error as its statusMessage and the order to BLOCKCHAIN_FAILED,
\* both at once, and returns TRANSACTION_FAILED; no step sets a transaction
\* that was never submitted to FAILED without setting its order to
\* BLOCKCHAIN_FAILED.
C29_FailureIsAtomic ==
  [][\A t \in TxIds :
       /\ (runs[t] = "failed" /\ runs'[t] # runs[t])
            => /\ txs'[t].status = "FAILED"
               /\ txs'[t].statusMessage = "out of funds"
               /\ orders'[txs[t].orderId].status = "BLOCKCHAIN_FAILED"
               /\ last' = Ret("processOrder", txs[t].orderId, "TRANSACTION_FAILED")
       /\ (txs[t].txHash = 0 /\ txs[t].status # "FAILED" /\ txs'[t].status = "FAILED")
            => /\ runs[t] = "failed"
               /\ orders'[txs[t].orderId].status = "BLOCKCHAIN_FAILED"]_vars

\* C29 witness: a run has just returned TRANSACTION_FAILED, leaving the
\* transaction FAILED with the adapter's message and the order
\* BLOCKCHAIN_FAILED.
C29_Witness ==
  \E t \in TxIds :
    /\ last = Ret("processOrder", txs[t].orderId, "TRANSACTION_FAILED")
    /\ txs[t].status = "FAILED"
    /\ txs[t].statusMessage = "out of funds"
    /\ orders[txs[t].orderId].status = "BLOCKCHAIN_FAILED"

\* C22: a webhook request whose signature does not verify is answered with
\* INVALID_SIGNATURE in the step in which it arrives, whatever event type and
\* metadata it carries; that step changes no Payment, Order or
\* BlockchainTransaction row and schedules no processOrder run, and the
\* request takes no further step.
C22_BadSignatureDropped ==
  [][/\ Len(hooks') > Len(hooks)
          => LET h == Len(hooks')
             IN hooks'[h].sig = "invalid"
                  => /\ hooks'[h].pc = "done"
                     /\ hooks'[h].result = "INVALID_SIGNATURE"
                     /\ last'.out = "INVALID_SIGNATURE"
                     /\ UNCHANGED <<orders, payments, txs, procSched, procRun, runs,
                                    pend, adapterCalls>>
     /\ \A h \in HookIds : hooks[h].sig = "invalid" => hooks'[h] = hooks[h]]_vars

\* C22 witness: a forged checkout.session.completed for an order that awaits
\* payment was dropped, and the order still awaits payment.
C22_Witness ==
  \E h \in HookIds :
    /\ hooks[h].sig = "invalid"
    /\ hooks[h].type = "checkout.session.completed"
    /\ hooks[h].result = "INVALID_SIGNATURE"
    /\ hooks[h].target \in stripe
    /\ payments[hooks[h].target].status = "PENDING"
    /\ orders[hooks[h].target].status = "PENDING_PAYMENT"

\* C23: every webhook request whose signature verified is answered 2xx, and
\* a 4xx answer is given to signature-verification failures only.
C23_ValidSignatureGets2xx ==
  \A h \in HookIds :
    hooks[h].pc = "done"
      => /\ hooks[h].sig = "valid" => hooks[h].status \in 200..299
         /\ hooks[h].status \in 400..499 => hooks[h].result = "INVALID_SIGNATURE"

\* C25: with every handler scheduled fairly, once an order created by
\* checkout has had its checkout.session.completed handled, its transaction
\* was submitted with a txHash and the poller's checkTransactionStatus has
\* returned CONFIRMED, a state follows in which the order is COMPLETED and
\* the transaction is CONFIRMED and carries that txHash.
C25_HappyPathCompletes ==
  \A t \in 1..MaxTxs :
    (IF t \in TxIds
       THEN /\ wh[txs[t].orderId] = "completed"
            /\ runs[t] = "returnedOk"
            /\ txs[t].txHash = t
            /\ pollers[t].pc = "got"
            /\ pollers[t].res = "CONFIRMED"
       ELSE FALSE)
      ~> (IF t \in TxIds
            THEN /\ orders[txs[t].orderId].status = "COMPLETED"
                 /\ txs[t].status = "CONFIRMED"
                 /\ txs[t].txHash = t
            ELSE FALSE)

\* C26: with the cron sweep firing again and again and its status calls
\* getting through, a submitted transaction whose poller is gone (lost in a
\* restart, or out of attempts) while the row has a txHash and is neither
\* CONFIRMED nor FAILED, whatever status the poller left on it, and which
\* the network has settled, is brought to the network's verdict by the
\* sweep: the row becomes CONFIRMED and the order COMPLETED, or the row
\* FAILED and the order BLOCKCHAIN_FAILED (unless a status call of the sweep
\* reports something else than the verdict).
C26_SweepRecovers ==
  \A t \in 1..MaxTxs :
    (IF t \in TxIds
       THEN /\ pollers[t].pc = "done"
            /\ txs[t].txHash # 0
            /\ txs[t].status \notin {"CONFIRMED", "FAILED"}
            /\ chain[t] \in {"CONFIRMED", "FAILED"}
       ELSE FALSE)
      ~> (IF t \in TxIds
            THEN \/ /\ txs[t].status = chain[t]
                    /\ orders[txs[t].orderId].status =
                         (IF chain[t] = "CONFIRMED" THEN "COMPLETED" ELSE "BLOCKCHAIN_FAILED")
                 \/ /\ sweep.pc = "got"
                    /\ sweep.cur = t
                    /\ sweep.res # chain[t]
            ELSE FALSE)

\* C27: with the cron sweep firing again and again, an order that is
\* PAYMENT_COMPLETED, has no BlockchainTransaction other than FAILED ones and
\* has no processOrder call or run in flight (they were lost in a restart)
\* is dispatched to processOrder again or leaves PAYMENT_COMPLETED.
C27_StrandedOrderRedispatched ==
  \A o \in 1..MaxOrders :
    (IF o \in OrderIds
       THEN /\ orders[o].status = "PAYMENT_COMPLETED"
            /\ \A t \in TxIds : txs[t].orderId = o => txs[t].status = "FAILED"
            /\ procSched[o] = 0
            /\ procRun.p2[o] = 0
            /\ procRun.p3[o] = 0
            /\ pend.cc[o] = 0
       ELSE FALSE)
      ~> (IF o \in OrderIds
            THEN procSched[o] > 0 \/ orders[o].status # "PAYMENT_COMPLETED"
            ELSE FALSE)

\* C30: pollTransactionConfirmation always terminates.  A poller makes no
\* more iterations than its limit, and calls checkTransactionStatus once in
\* an iteration at most; after a CONFIRMED or FAILED result it writes the
\* transaction and the order and returns, with no further call; an
\* iteration that finds the row already CONFIRMED or FAILED returns with no
\* call and no row update; a throw in an iteration takes the poller back to
\* the head of the loop with its count kept; and, scheduled fairly, every
\* poller that was started returns.
C30_PollerTerminates ==
  /\ [][\A t \in TxIds :
          pollers'[t] # pollers[t] =>
            /\ pollers'[t].attempt <= budget.polls
            /\ pollers'[t].attempt \in {pollers[t].attempt, pollers[t].attempt + 1}
            /\ pollers'[t].pc = "check"
                 => /\ pollers[t].pc = "wait"
                    /\ pollers'[t].attempt = pollers[t].attempt + 1
            /\ pollers[t].pc # "wait" => pollers'[t].attempt = pollers[t].attempt
            /\ (pollers[t].pc = "got" /\ pollers[t].res \in {"CONFIRMED", "FAILED"})
                 => pollers'[t].pc = "order"
            /\ pollers[t].pc = "order" => pollers'[t].pc = "done"
            /\ (pollers[t].pc = "wait" /\ txs[t].status \in {"CONFIRMED", "FAILED"})
                 => /\ pollers'[t].pc = "done"
                    /\ UNCHANGED <<txs, orders, alloc>>
            /\ (pollers[t].pc = "check" /\ pollers'[t].pc # "got")
                 => /\ pollers'[t].pc = "wait"
                    /\ UNCHANGED <<txs, orders, alloc>>
            /\ (pollers[t].pc = "wait" /\ pollers[t].attempt < budget.polls
                  /\ txs[t].txHash # 0 /\ txs[t].status \notin {"CONFIRMED", "FAILED"})
                 => pollers'[t].pc = "check"]_vars
  /\ \A t \in 1..MaxTxs :
       (IF t \in TxIds THEN pollers[t].pc \notin {"none", "done"} ELSE FALSE)
         ~> (IF t \in TxIds THEN pollers[t].pc = "done" ELSE FALSE)

\* C30 witness: a status call has thrown in the first iteration of a poller
\* that has another iteration left, which it goes on to make.
C30_Witness ==
  \E t \in TxIds :
    /\ last = Ret("poll", t, "caught")
    /\ pollers[t].pc = "wait"
    /\ pollers[t].attempt = 1
    /\ budget.polls > 1
    /\ txs[t].status = "SUBMITTED"

\* C31: the sweep applies the same state-transition logic as the poller: the
\* blockchainTransaction.update of a sweep pass leaves the row as the update
\* of a poller iteration would for the same row and the same
\* checkTransactionStatus result (status and statusMessage), and the
\* order.update that follows a terminal result writes the same order status,
\* allocatedAt and expiresAt.
C31_SweepMatchesPoller ==
  [][LET PollerRow(row, r, e) ==
           [row EXCEPT !.status = r,
                       !.statusMessage = IF e = NoMessage THEN @ ELSE e]
     IN /\ (sweep.pc = "got" /\ sweep'.pc # "got")
             => \E e \in StatusErrors(sweep.res) :
                  txs'[sweep.cur] = PollerRow(txs[sweep.cur], sweep.res, e)
        /\ (sweep.pc = "order" /\ sweep'.pc # "order")
             => /\ orders'[txs[sweep.cur].orderId].status = OrderStatusFor(sweep.res)
                /\ alloc' = Stamp(txs[sweep.cur].orderId, sweep.res)]_vars

\* C32: a retryTransaction call rejected by its guard (TX_NOT_FOUND,
\* INVALID_STATUS or MAX_RETRIES) changes nothing: the step that returns the
\* error leaves every BlockchainTransaction, Order and Payment row as it
\* was, makes no adapter call and schedules neither the update nor a
\* processOrder run.
C32_RejectedRetryChangesNothing ==
  [][\A t \in 1..MaxTxs :
       (/\ budget'.retry < budget.retry
        /\ last' = Ret("retryTransaction", t, RetryGuard(t))
        /\ RetryGuard(t) \in {"TX_NOT_FOUND", "INVALID_STATUS", "MAX_RETRIES"})
         => /\ UNCHANGED <<store, alloc, adapterCalls, chain, txParams>>
            /\ UNCHANGED <<retryPend, procSched, procRun, runs>>]_vars

\* A call was rejected with MAX_RETRIES.
C32_Witness ==
  \E t \in TxIds :
    /\ last = Ret("retryTransaction", t, "MAX_RETRIES")
    /\ txs[t].status = "FAILED"
    /\ txs[t].retryCount >= txs[t].maxRetries

\* C33: when stripe.checkout.sessions.create fails after the Order/Payment
\* pair was committed, createCheckoutSession returns an error and leaves the
\* pair as it was committed: the step changes no Order, Payment or
\* BlockchainTransaction row (an order that was PENDING_PAYMENT stays so),
\* the Payment is PENDING with no session id, no session exists at the
\* processor, and nothing is scheduled or rolled back.
C33_SessionFailureLeavesPair ==
  [][\A o \in OrderIds :
       (checkout[o] = "created" /\ checkout'[o] = "failed")
         => /\ last' = Ret("checkout", o, "STRIPE_ERROR")
            /\ orders'[o] = orders[o]
            /\ payments'[o] = [status |-> "PENDING", intent |-> FALSE, session |-> FALSE]
            /\ o \notin stripe'
            /\ UNCHANGED <<store, alloc, orderKeys, snapshots, payOrder, plans, customer>>
            /\ UNCHANGED <<pend, procSched, procRun, runs, adapterCalls>>]_vars

\* The call has returned STRIPE_ERROR and the pair is still there, unpaid.
C33_Witness ==
  \E o \in OrderIds :
    /\ last = Ret("checkout", o, "STRIPE_ERROR")
    /\ checkout[o] = "failed"
    /\ orders[o].status = "PENDING_PAYMENT"
    /\ payments[o].status = "PENDING"
    /\ ~payments[o].session

\* C34: no allocation without payment: executeStorageTransaction has been
\* called for an order only if a checkout.session.completed event of that
\* order was handled before, that is, its Payment was set to SUCCEEDED in the
\* write that also stored the payment intent (which no later write removes),
\* whatever cancelOrder calls, expired and payment-failed events, retries,
\* poller and sweep steps take place.
C34_NoAllocationWithoutPayment ==
  \A o \in OrderIds :
    adapterCalls[o] > 0 => (payments[o].intent /\ wh[o] # "none")

\* A submission was made for a paid order.
C34_Witness ==
  \E o \in OrderIds :
    /\ adapterCalls[o] > 0
    /\ last = Ret("executeStorageTransaction", o, "called")
    /\ payments[o].status = "SUCCEEDED"

\* C35: in every reachable state an order that is COMPLETED has a
\* BlockchainTransaction row whose status is CONFIRMED, also when the poller
\* and the sweep handle the same transaction concurrently.
C35_CompletedHasConfirmedTx ==
  \A o \in OrderIds :
    orders[o].status = "COMPLETED"
      => \E t \in TxIds : txs[t].orderId = o /\ txs[t].status = "CONFIRMED"

\* C36: whenever processOrder ends with an error after it has inserted a
\* BlockchainTransaction row, whether the adapter returned a failure or
\* threw, that row is FAILED when the run returns: the order is not left
\* BLOCKCHAIN_FAILED with the row of the failing run still PENDING.
C36_FailedRunMarksRow ==
  [][\A t \in TxIds :
       (/\ runs[t] \in {"failed", "thrown"}
        /\ runs'[t] \in {"returnedFailed", "returnedThrown"})
         => txs'[t].status = "FAILED"]_vars

\* C37: when retryTransaction passed its guard and the processOrder call it
\* makes returns an error, the transaction is left as it was before the
\* call: once processOrder has returned INVALID_ORDER_STATUS for the order
\* and no retryTransaction or processOrder call of that order is still on
\* its way, none of the order's transactions is RETRYING.
C37_FailedRetryRestoresRow ==
  [][\A o \in OrderIds :
       (/\ last' = Ret("processOrder", o, "INVALID_ORDER_STATUS")
        /\ procSched[o] = 1
        /\ procSched'[o] = 0
        /\ \A t \in TxIds : txs[t].orderId = o => retryPend[t] = 0)
         => \A t \in TxIds : txs[t].orderId = o => txs'[t].status # "RETRYING"]_vars

\* C38: Payment and Order statuses are consistent in every reachable state:
\* an order whose Payment is SUCCEEDED is not PENDING_PAYMENT, CANCELLED or
\* PAYMENT_FAILED, and an order that is CANCELLED has no Payment that is
\* PENDING or SUCCEEDED.
C38_PaymentMatchesOrder ==
  \A q \in 1..Len(payments) :
    /\ payments[q].status = "SUCCEEDED"
         => orders[payOrder[q]].status
              \notin {"PENDING_PAYMENT", "CANCELLED", "PAYMENT_FAILED"}
    /\ orders[payOrder[q]].status = "CANCELLED"
         => payments[q].status \notin {"PENDING", "SUCCEEDED"}

\* C39: once the status of a BlockchainTransaction is CONFIRMED it never
\* changes again: no step of the poller, the sweep, retryTransaction or
\* processOrder overwrites a CONFIRMED row, also when the poller and the
\* sweep handle the same transaction concurrently.
C39_ConfirmedIsFinal ==
  [][\A t \in TxIds :
       txs[t].status = "CONFIRMED" => txs'[t].status = "CONFIRMED"]_vars

\* C40: the storageSizeBytes that processOrder passes to
\* executeStorageTransaction is the size of the plan as it was when the order
\* was created (the bytes of the storageSizeGb copied onto the order), also
\* when syncPlans has updated the plan in between, and the durationDays
\* passed is the order's own durationDays.
C40_AllocatesWhatWasSold ==
  [][\A t \in TxIds :
       (runs[t] = "callAdapter" /\ runs'[t] # "callAdapter")
         => /\ txParams[t].storageSizeBytes
                 = GbToBytes(snapshots[txs[t].orderId].storageSizeGb)
            /\ txParams[t].durationDays = snapshots[txs[t].orderId].durationDays]_vars


====
